---- MODULE Spec2Model ----
(***************************************************************************)
(* Model of the semantic tool-call cache: the in-memory storage backend,   *)
(* ToolCache (search / save / increment / eviction) and the decision       *)
(* engine of ToolInterceptor.                                              *)
(*                                                                         *)
(* Units.  A similarity or distance is an integer number of hundredths     *)
(* (similarity 0.95 is 95).  A weighted score is in units of 10^-8         *)
(* (ScoreUnit per hundredth of similarity).  One clock tick is 69 hours,   *)
(* the half-life of the default time decay (lambda = 0.01 per hour).       *)
(***************************************************************************)
EXTENDS Integers, Sequences, FiniteSets, TLC

\* ------------------------------------------------------------------ bounds
NumArgs == 3          \* distinct argument values a caller passes: 1..NumArgs
MaxClock == 1         \* the clock runs over 0..MaxClock
MaxRefs == 1          \* cap on reuse_count + provide_context_count of one entry
MaxCacheSize == 2     \* config.max_cache_size of the modelled cache
NumStored == 4        \* entries a cache populated before the decisions may hold
MaxCalls == 4         \* calls of the wrapped function
NumThreads == 2       \* concurrent callers of one cache
MaxTopK == 2          \* the largest top_k a caller passes to search

\* ------------------------------------------------------- program constants
DefaultSimilarityThreshold == 75   \* CacheConfig() default similarity_threshold = 0.75
DefaultReuseThreshold == 95        \* CacheConfig() default reuse_threshold = 0.95
SimilarityThreshold == 50      \* similarity_threshold = 0.5
ReuseThreshold == 95           \* reuse_threshold = 0.95
TopK == 5                      \* config.top_k default
HintLimit == 3                 \* successful_hits[:3]
ScoreUnit == 1000000           \* weighted-score units per hundredth of similarity

Args == 1..NumArgs
\* the calls a caller makes: the tool "search" with every argument value
Calls == {<<"search", a>> : a \in Args}
\* what a tool execution produces: (output, success)
Outcomes == {[output |-> "result", success |-> TRUE],
             [output |-> "error", success |-> FALSE]}
Policies == {"score", "lru", "lfu", "fifo"}

Min(a, b) == IF a < b THEN a ELSE b

\* ----------------------------------------------------------- core/utils.py
\* serialize_args: the canonical text of an argument value.  Argument values
\* are modelled already canonical, so the text is the value's tag.
SerializeArgs(args) == <<"text", args>>

\* generate_cache_id: a hash of "tool_name:input_text"; modelled injective.
GenerateCacheId(tool_name, input_text) == <<tool_name, input_text[2]>>

EntryId(tool_name, args) == GenerateCacheId(tool_name, SerializeArgs(args))

\* The embedding provider and the vector index's cosine distance between the
\* embeddings of two argument texts, in hundredths.  Identical texts embed
\* identically (distance 0); the table gives a near-duplicate pair (0.03),
\* a related pair (0.10), an unrelated pair (0.70) and moderately related
\* pairs for the remaining values.  No two stored texts are equally far from
\* a query.
Distance(a, b) ==
    IF a = b THEN 0
    ELSE LET lo == Min(a, b)
             hi == IF a < b THEN b ELSE a
         IN  CASE <<lo, hi>> = <<1, 2>> -> 3
               [] <<lo, hi>> = <<2, 3>> -> 10
               [] <<lo, hi>> = <<1, 3>> -> 70
               [] OTHER -> Min(100, 20 + 5 * lo + hi)

\* compute_similarity_score / cache.py:181
SimilarityOf(distance) == 100 - distance

\* 10^4 * ln(1 + i/5) / ln(100) for i = 0..40: with reuse_context_factor 0.6
\* the weighted count 0.6*reuse + 0.4*context is (6*reuse + 4*context)/10,
\* an even number of tenths, so i = (6*reuse + 4*context) / 2.
LogTable ==
    <<0, 396, 731, 1021, 1276, 1505, 1712, 1901, 2075, 2236, 2386, 2526, 2657,
      2782, 2899, 3010, 3116, 3217, 3314, 3406, 3495, 3580, 3662, 3741, 3817,
      3891, 3962, 4031, 4098, 4163, 4225, 4287, 4346, 4404, 4460, 4515, 4569,
      4621, 4672, 4722, 4771>>

\* normalized_ref = min(log(weighted_count + 1) / log(100), 1.0), times 10^4
NormalizedRef(reuse_count, provide_context_count) ==
    LET i == (6 * reuse_count + 4 * provide_context_count) \div 2
    IN  Min(IF i + 1 <= Len(LogTable) THEN LogTable[i + 1] ELSE 10000, 10000)

\* recency_factor = exp(-lambda * delta_t_hours), times 10^4, for a whole
\* number of ticks of 69 hours: exp(-0.69) = 0.5016 per tick.
RECURSIVE RecencyFactor(_)
RecencyFactor(ticks) ==
    IF ticks <= 0 THEN 10000 ELSE (RecencyFactor(ticks - 1) * 5016) \div 10000

\* compute_weighted_score, evaluated at time `now`
ComputeWeightedScore(similarity, reuse_count, provide_context_count, last_accessed, now) ==
    similarity * ScoreUnit
      + NormalizedRef(reuse_count, provide_context_count) * RecencyFactor(now - last_accessed)

\* ToolCache._compute_entry_score: similarity defaults to 1.0
ComputeEntryScore(entry, now) ==
    ComputeWeightedScore(100, entry.reuse_count, entry.provide_context_count,
                         entry.last_accessed_at, now)

\* ------------------------------------------------- core/storage/memory.py
\* The backend's two dicts.  Both get a key in set() and lose it in delete(),
\* so they iterate in the same insertion order, kept once as `order`.
EmptyDict == [k \in {} |-> k]

EmptyStorage == [data |-> EmptyDict, scores |-> EmptyDict, order |-> <<>>]

StorageExists(st, key) == key \in DOMAIN st.data

StorageSize(st) == Cardinality(DOMAIN st.data)

StorageKeys(st) == st.order

\* get: call only where StorageExists; None otherwise
StorageGet(st, key) == st.data[key]

StorageSet(st, key, value, score) ==
    [data   |-> [k \in DOMAIN st.data \cup {key} |-> IF k = key THEN value ELSE st.data[k]],
     scores |-> [k \in DOMAIN st.scores \cup {key} |-> IF k = key THEN score ELSE st.scores[k]],
     order  |-> IF key \in DOMAIN st.data THEN st.order ELSE Append(st.order, key)]

StorageDelete(st, key) ==
    [data   |-> [k \in DOMAIN st.data \ {key} |-> st.data[k]],
     scores |-> [k \in DOMAIN st.scores \ {key} |-> st.scores[k]],
     order  |-> SelectSeq(st.order, LAMBDA k : k # key)]

StorageClear(st) == EmptyStorage

StorageUpdateScore(st, key, score) ==
    IF key \notin DOMAIN st.data THEN st
    ELSE [st EXCEPT !.scores[key] = score]

StorageGetScore(st, key) == st.scores[key]

\* mutant of StorageUpdateAccessTime: an entry not accessed since an earlier
\* tick has expired and is dropped
StorageExpireOnAccess(st, key, now) ==
    IF key \notin DOMAIN st.data THEN st
    ELSE IF st.data[key].last_accessed_at < now THEN StorageDelete(st, key)
    ELSE [st EXCEPT !.data[key].last_accessed_at = now]

StorageUpdateAccessTime(st, key, now) ==
    IF key \notin DOMAIN st.data THEN st
    ELSE [st EXCEPT !.data[key].last_accessed_at = now]

StorageIncrementReuse(st, key, now) ==
    IF key \notin DOMAIN st.data THEN st
    ELSE [st EXCEPT !.data[key].reuse_count = @ + 1,
                    !.data[key].last_accessed_at = now]

\* mutant of StorageIncrementContext: the increment lands on both counters
StorageIncrementBoth(st, key, now) ==
    IF key \notin DOMAIN st.data THEN st
    ELSE [st EXCEPT !.data[key].provide_context_count = @ + 1,
                    !.data[key].reuse_count = @ + 1,
                    !.data[key].last_accessed_at = now]

StorageIncrementContext(st, key, now) ==
    IF key \notin DOMAIN st.data THEN st
    ELSE [st EXCEPT !.data[key].provide_context_count = @ + 1,
                    !.data[key].last_accessed_at = now]

\* mutant of StorageDecrementReference: provide_context_count goes first
StorageDecrementContextFirst(st, key) ==
    IF key \notin DOMAIN st.data THEN st
    ELSE LET reuse == st.data[key].reuse_count
             context == st.data[key].provide_context_count
         IN  IF context > 0 THEN [st EXCEPT !.data[key].provide_context_count = context - 1]
             ELSE IF reuse > 0 THEN [st EXCEPT !.data[key].reuse_count = reuse - 1]
             ELSE st

\* MemoryStorageBackend.decrement_reference
StorageDecrementReference(st, key) ==
    IF key \notin DOMAIN st.data THEN st
    ELSE LET reuse == st.data[key].reuse_count
             context == st.data[key].provide_context_count
         IN  IF reuse > 0 THEN [st EXCEPT !.data[key].reuse_count = reuse - 1]
             ELSE IF context > 0 THEN [st EXCEPT !.data[key].provide_context_count = context - 1]
             ELSE st

\* sorted(items, key=...)[:n]: Python's sort is stable, so equal keys keep the
\* dict's iteration order.  rank[k] is the integer sort key of key k.
SortedFirst(order, rank, n) ==
    LET len == Len(order)
        Pos(i) == Cardinality({j \in 1..len :
                      \/ rank[order[j]] < rank[order[i]]
                      \/ rank[order[j]] = rank[order[i]] /\ j < i}) + 1
    IN  [p \in 1..Min(n, len) |-> order[CHOOSE i \in 1..len : Pos(i) = p]]

GetBottomByScore(st, n) ==
    SortedFirst(st.order, st.scores, n)

GetOldestByAccess(st, n) ==
    SortedFirst(st.order, [k \in DOMAIN st.data |-> st.data[k].last_accessed_at], n)

GetLeastUsed(st, n) ==
    SortedFirst(st.order,
                [k \in DOMAIN st.data |->
                    st.data[k].reuse_count + st.data[k].provide_context_count], n)

GetOldestByCreation(st, n) ==
    SortedFirst(st.order, [k \in DOMAIN st.data |-> st.data[k].created_at], n)

\* ------------------------------------------------ core/storage/chroma.py
\* The vector index holds one record per id; the record's embedding and its
\* tool_name metadata are functions of the id, so the index is a set of ids.
VectorAdd(index, id) == index \cup {id}

VectorDelete(index, id) == index \ {id}

\* mutant of VectorClear: the collection keeps its records
VectorClearKeep(index) == index

VectorClear(index) == {}

\* collection.query(n_results=k, where={"tool_name": tool}): the ids of the at
\* most k nearest records of that tool, nearest first.
NearestFirst(cands, args, k) ==
    LET Before(x, y) == \/ Distance(x[2], args) < Distance(y[2], args)
                        \/ Distance(x[2], args) = Distance(y[2], args) /\ x[2] < y[2]
    IN  [p \in 1..Min(k, Cardinality(cands)) |->
            CHOOSE id \in cands : Cardinality({o \in cands : Before(o, id)}) = p - 1]

\* mutant of VectorSearch: the tool_name filter is not applied
VectorSearchAnyTool(index, tool_name, args, k) ==
    NearestFirst(index, args, k)

VectorSearch(index, tool_name, args, k) ==
    NearestFirst({id \in index : id[1] = tool_name}, args, k)

\* ----------------------------------------------------------- core/cache.py
\* CacheEntry(...) as built by save for a new id, in its to_dict() form.
NewEntry(tool_name, args, output, success, now) ==
    [tool_name |-> tool_name, input_text |-> SerializeArgs(args), input_args |-> args,
     output |-> output, uuid |-> <<"uuid4", tool_name, args, now>>,
     embedding |-> <<"embedding", args>>,
     success |-> success, reuse_count |-> 0, provide_context_count |-> 0,
     created_at |-> now, last_accessed_at |-> now]

\* mutant of SortHits: the hits stay in the order of the candidates
SortHitsNot(hits) == hits

\* hits.sort(key=weighted_score, reverse=True): stable, descending
SortHits(hits) ==
    LET n == Len(hits)
        Pos(i) == Cardinality({j \in 1..n :
                      \/ hits[j].weighted_score > hits[i].weighted_score
                      \/ hits[j].weighted_score = hits[i].weighted_score /\ j < i}) + 1
    IN  [p \in 1..n |-> hits[CHOOSE i \in 1..n : Pos(i) = p]]

\* one CacheHit of search: the stored entry, its similarity to the query and
\* its weighted score at that similarity
HitOf(st, id, args, now) ==
    [id |-> id, entry |-> StorageGet(st, id),
     similarity |-> SimilarityOf(Distance(id[2], args)),
     weighted_score |->
         ComputeWeightedScore(SimilarityOf(Distance(id[2], args)),
             StorageGet(st, id).reuse_count, StorageGet(st, id).provide_context_count,
             StorageGet(st, id).last_accessed_at, now)]

\* mutant of HitsOf: a candidate below similarity_threshold is kept
HitsOfUnfiltered(st, cfg, ids, args, now) ==
    LET Keep(id) == StorageExists(st, id)
        Hits(kept) == [i \in 1..Len(kept) |-> HitOf(st, kept[i], args, now)]
    IN  Hits(SelectSeq(ids, Keep))

\* the loop of search over the candidate ids: a candidate without a storage
\* record or below similarity_threshold is skipped
HitsOf(st, cfg, ids, args, now) ==
    LET Keep(id) == /\ StorageExists(st, id)
                    /\ SimilarityOf(Distance(id[2], args)) >= cfg.similarity_threshold
        Hits(kept) == [i \in 1..Len(kept) |-> HitOf(st, kept[i], args, now)]
    IN  Hits(SelectSeq(ids, Keep))

\* ToolCache.search: the ranked hits
Search(st, index, cfg, tool_name, args, k, now) ==
    SortHits(HitsOf(st, cfg, VectorSearch(index, tool_name, SerializeArgs(args)[2], k),
                    args, now))

\* mutant of SearchPrune: every candidate is deleted from the vector index
SearchPruneAll(st, index, tool_name, args, k) ==
    index \ {id \in index : \E i \in 1..Len(VectorSearch(index, tool_name,
                                                  SerializeArgs(args)[2], k)) :
                 VectorSearch(index, tool_name, SerializeArgs(args)[2], k)[i] = id}

\* ToolCache.search: the vector index after the stale candidates (no record in
\* storage) were pruned
SearchPrune(st, index, tool_name, args, k) ==
    LET Stale(ids) == {ids[i] : i \in {j \in 1..Len(ids) : ~StorageExists(st, ids[j])}}
    IN  index \ Stale(VectorSearch(index, tool_name, SerializeArgs(args)[2], k))

\* mutant of EvictEntries: the evicted id stays in the vector index
RECURSIVE EvictEntriesStorageOnly(_, _, _)
EvictEntriesStorageOnly(st, index, keys) ==
    IF keys = <<>> THEN [storage |-> st, vindex |-> index]
    ELSE EvictEntriesStorageOnly(StorageDelete(st, Head(keys)), index, Tail(keys))

\* ToolCache._evict_entry over the selected keys, in order
RECURSIVE EvictEntries(_, _, _)
EvictEntries(st, index, keys) ==
    IF keys = <<>> THEN [storage |-> st, vindex |-> index]
    ELSE LET id == Head(keys)
         IN  IF StorageExists(st, id)
             THEN EvictEntries(StorageDelete(st, id), VectorDelete(index, id), Tail(keys))
             ELSE EvictEntries(st, index, Tail(keys))

\* mutant of SelectForEviction: every policy ranks by the stored score
SelectForEvictionByScore(st, policy, num_to_evict) ==
    GetBottomByScore(st, num_to_evict)

\* the keys _maybe_evict selects under a policy
SelectForEviction(st, policy, num_to_evict) ==
    IF policy = "score" THEN GetBottomByScore(st, num_to_evict)
    ELSE IF policy = "lru" THEN GetOldestByAccess(st, num_to_evict)
    ELSE IF policy = "lfu" THEN GetLeastUsed(st, num_to_evict)
    ELSE GetOldestByCreation(st, num_to_evict)

\* the loop of _maybe_evict over evict_keys; `evicted` records the keys
EvictSelected(st, index, keys) ==
    LET Result(after) ==
            [storage |-> after.storage, vindex |-> after.vindex, evicted |-> keys]
    IN  Result(EvictEntries(st, index, keys))

\* mutant of MaybeEvict: evicts one entry fewer than the overflow
MaybeEvictOneFewer(st, index, cfg) ==
    IF StorageSize(st) <= cfg.max_cache_size
    THEN [storage |-> st, vindex |-> index, evicted |-> <<>>]
    ELSE EvictSelected(st, index,
             SelectForEviction(st, cfg.eviction_policy,
                               StorageSize(st) - cfg.max_cache_size - 1))

\* ToolCache._maybe_evict
MaybeEvict(st, index, cfg) ==
    IF StorageSize(st) <= cfg.max_cache_size
    THEN [storage |-> st, vindex |-> index, evicted |-> <<>>]
    ELSE EvictSelected(st, index,
             SelectForEviction(st, cfg.eviction_policy,
                               StorageSize(st) - cfg.max_cache_size))

\* mutant of SaveEntry: a re-save stores a fresh entry (counters back to 0)
SaveEntryFresh(st, index, cfg, tool_name, args, output, success, now) ==
    LET entry_id == GenerateCacheId(tool_name, SerializeArgs(args))
        entry == NewEntry(tool_name, args, output, success, now)
        Result(ev) == [storage |-> ev.storage, vindex |-> ev.vindex,
                       evicted |-> ev.evicted, id |-> entry_id, entry |-> entry]
    IN  Result(MaybeEvict(StorageSet(st, entry_id, entry, ComputeEntryScore(entry, now)),
                          VectorAdd(index, entry_id), cfg))

\* mutant of SaveEntry: a re-save stamps created_at as well
SaveEntryRecreated(st, index, cfg, tool_name, args, output, success, now) ==
    LET entry_id == GenerateCacheId(tool_name, SerializeArgs(args))
    IN  IF StorageExists(st, entry_id)
        THEN LET entry == [StorageGet(st, entry_id) EXCEPT
                              !.output = output, !.success = success,
                              !.created_at = now, !.last_accessed_at = now]
             IN  [storage |-> StorageSet(st, entry_id, entry, ComputeEntryScore(entry, now)),
                  vindex |-> index, evicted |-> <<>>, id |-> entry_id, entry |-> entry]
        ELSE LET entry == NewEntry(tool_name, args, output, success, now)
                 Result(ev) == [storage |-> ev.storage, vindex |-> ev.vindex,
                                evicted |-> ev.evicted, id |-> entry_id, entry |-> entry]
             IN  Result(MaybeEvict(
                     StorageSet(st, entry_id, entry, ComputeEntryScore(entry, now)),
                     VectorAdd(index, entry_id), cfg))

\* ToolCache.save
SaveEntry(st, index, cfg, tool_name, args, output, success, now) ==
    LET entry_id == GenerateCacheId(tool_name, SerializeArgs(args))
    IN  IF StorageExists(st, entry_id)
        THEN LET entry == [StorageGet(st, entry_id) EXCEPT
                              !.output = output, !.success = success,
                              !.last_accessed_at = now]
             IN  [storage |-> StorageSet(st, entry_id, entry, ComputeEntryScore(entry, now)),
                  vindex |-> index, evicted |-> <<>>, id |-> entry_id, entry |-> entry]
        ELSE LET entry == NewEntry(tool_name, args, output, success, now)
                 Result(ev) == [storage |-> ev.storage, vindex |-> ev.vindex,
                                evicted |-> ev.evicted, id |-> entry_id, entry |-> entry]
             IN  \* vector_store.add, then storage.set, then _maybe_evict
                 Result(MaybeEvict(
                     StorageSet(st, entry_id, entry, ComputeEntryScore(entry, now)),
                     VectorAdd(index, entry_id), cfg))

\* mutant of SaveEntryStorageError: the vector-index write is not rolled back
SaveEntryNoRollback(st, index, cfg, tool_name, args, output, success, now, delete_fails) ==
    LET entry_id == GenerateCacheId(tool_name, SerializeArgs(args))
    IN  [storage |-> st,
         vindex |-> IF StorageExists(st, entry_id) THEN index ELSE VectorAdd(index, entry_id),
         evicted |-> <<>>, id |-> entry_id, raised |-> "storage"]

\* ToolCache.save when storage.set raises (the backend's write changes
\* nothing); delete_fails: the rollback vector_store.delete raises as well and
\* is swallowed.  `raised` names the error that reaches the caller.
SaveEntryStorageError(st, index, cfg, tool_name, args, output, success, now, delete_fails) ==
    LET entry_id == GenerateCacheId(tool_name, SerializeArgs(args))
    IN  IF StorageExists(st, entry_id)
        THEN \* the re-save path: storage.set raises, nothing was written
             [storage |-> st, vindex |-> index, evicted |-> <<>>, id |-> entry_id,
              raised |-> "storage"]
        ELSE \* vector_store.add, storage.set raises, vector_store.delete, raise
             [storage |-> st,
              vindex |-> IF delete_fails THEN VectorAdd(index, entry_id)
                         ELSE VectorDelete(VectorAdd(index, entry_id), entry_id),
              evicted |-> <<>>, id |-> entry_id, raised |-> "storage"]

\* mutant of WriteScore: the copy is written back together with its score
WriteScoreAndEntry(st, entry_id, entry, now) ==
    IF StorageExists(st, entry_id)
    THEN StorageSet(st, entry_id, entry, ComputeEntryScore(entry, now))
    ELSE st

\* score = _compute_entry_score(entry); storage.update_score(entry_id, score),
\* for the copy `entry` that storage.get returned
WriteScore(st, entry_id, entry, now) ==
    StorageUpdateScore(st, entry_id, ComputeEntryScore(entry, now))

\* the score refresh that follows a successful counter increment
RefreshScore(st, entry_id, now) ==
    IF StorageExists(st, entry_id)
    THEN WriteScore(st, entry_id, StorageGet(st, entry_id), now)
    ELSE st

\* ToolCache.increment_reuse
IncrementReuseEntry(st, entry_id, now) ==
    IF StorageExists(st, entry_id)
    THEN RefreshScore(StorageIncrementReuse(st, entry_id, now), entry_id, now)
    ELSE st

\* mutant of IncrementContextEntry: a missing id gets a record with the count
IncrementContextUpsert(st, entry_id, now) ==
    IF StorageExists(st, entry_id)
    THEN RefreshScore(StorageIncrementContext(st, entry_id, now), entry_id, now)
    ELSE StorageSet(st, entry_id,
                    [NewEntry(entry_id[1], entry_id[2], "result", TRUE, now)
                        EXCEPT !.provide_context_count = 1], 0)

\* ToolCache.increment_context
IncrementContextEntry(st, entry_id, now) ==
    IF StorageExists(st, entry_id)
    THEN RefreshScore(StorageIncrementContext(st, entry_id, now), entry_id, now)
    ELSE st

\* mutant of TouchEntry: the touch counts as a reuse
TouchEntryCounting(st, entry_id, now) ==
    IF StorageExists(st, entry_id)
    THEN RefreshScore(StorageIncrementReuse(st, entry_id, now), entry_id, now)
    ELSE st

\* ToolCache._touch_entry
TouchEntry(st, entry_id, now) ==
    IF StorageExists(st, entry_id)
    THEN RefreshScore(StorageUpdateAccessTime(st, entry_id, now), entry_id, now)
    ELSE st

\* ToolCache.get_best_match: search with top_k = 1, then touch the match
GetBestMatchHits(st, index, cfg, tool_name, args, now) ==
    LET Best(hits) == IF hits # <<>> /\ hits[1].similarity >= cfg.similarity_threshold
                      THEN <<hits[1]>> ELSE <<>>
    IN  Best(Search(st, index, cfg, tool_name, args, 1, now))

RECURSIVE SumRefs(_, _, _)
\* the loop of stats over the keys: the running sum of one counter, or of the
\* maximum of reuse + context when field is "max"
SumRefs(st, keys, field) ==
    IF keys = <<>> THEN 0
    ELSE LET data == StorageGet(st, Head(keys))
             rest == SumRefs(st, Tail(keys), field)
         IN  IF field = "reuse" THEN data.reuse_count + rest
             ELSE IF field = "context" THEN data.provide_context_count + rest
             ELSE IF data.reuse_count + data.provide_context_count > rest
                  THEN data.reuse_count + data.provide_context_count ELSE rest

\* ToolCache.stats; avg_reference_count in hundredths
CacheStats(st) ==
    IF StorageKeys(st) = <<>>
    THEN [total_entries |-> 0, total_reuse_count |-> 0, total_context_count |-> 0,
          total_references |-> 0, avg_reference_count |-> 0]
    ELSE LET keys == StorageKeys(st)
             total_reuse == SumRefs(st, keys, "reuse")
             total_context == SumRefs(st, keys, "context")
         IN  [total_entries |-> Len(keys), total_reuse_count |-> total_reuse,
              total_context_count |-> total_context,
              total_references |-> total_reuse + total_context,
              avg_reference_count |-> (100 * (total_reuse + total_context)) \div Len(keys),
              max_reference_count |-> SumRefs(st, keys, "max")]

\* ------------------------------------------------- interceptor/wrapper.py
\* successful_hits = [h for h in hits if h.entry.success]
SuccessfulHits(hits) == SelectSeq(hits, LAMBDA h : h.entry.success)

\* mutant of ContextHints: every successful hit is a hint
ContextHintsUncut(hits) == SuccessfulHits(hits)

\* context_hints = successful_hits[:3]
ContextHints(hits) ==
    SubSeq(SuccessfulHits(hits), 1, Min(HintLimit, Len(SuccessfulHits(hits))))

RECURSIVE IncrementContextAll(_, _, _)
IncrementContextAll(st, hints, now) ==
    IF hints = <<>> THEN st
    ELSE IncrementContextAll(IncrementContextEntry(st, Head(hints).id, now), Tail(hints), now)

\* mutant of Decide: a failed entry is not reused
DecideReuseSuccessful(st, icfg, hits, now) ==
    IF hits = <<>>
    THEN [decision |-> "EXECUTE", cache_hit |-> <<>>, context_hints |-> <<>>, storage |-> st]
    ELSE LET best_hit == hits[1]
         IN  IF best_hit.similarity >= icfg.reuse_threshold /\ best_hit.entry.success
             THEN [decision |-> "REUSE", cache_hit |-> <<best_hit>>, context_hints |-> <<>>,
                   storage |-> IncrementReuseEntry(st, best_hit.id, now)]
             ELSE IF /\ best_hit.similarity >= icfg.similarity_threshold
                     /\ SuccessfulHits(hits) # <<>>
             THEN [decision |-> "PROVIDE_CONTEXT", cache_hit |-> <<>>,
                   context_hints |-> ContextHints(hits),
                   storage |-> IncrementContextAll(st, ContextHints(hits), now)]
             ELSE [decision |-> "EXECUTE", cache_hit |-> <<>>, context_hints |-> <<>>,
                   storage |-> st]

\* mutant of Decide: only the best hit is asked for its success
DecideBestSuccess(st, icfg, hits, now) ==
    IF hits = <<>>
    THEN [decision |-> "EXECUTE", cache_hit |-> <<>>, context_hints |-> <<>>, storage |-> st]
    ELSE LET best_hit == hits[1]
         IN  IF best_hit.similarity >= icfg.reuse_threshold
             THEN [decision |-> "REUSE", cache_hit |-> <<best_hit>>, context_hints |-> <<>>,
                   storage |-> IncrementReuseEntry(st, best_hit.id, now)]
             ELSE IF /\ best_hit.similarity >= icfg.similarity_threshold
                     /\ best_hit.entry.success
             THEN [decision |-> "PROVIDE_CONTEXT", cache_hit |-> <<>>,
                   context_hints |-> ContextHints(hits),
                   storage |-> IncrementContextAll(st, ContextHints(hits), now)]
             ELSE [decision |-> "EXECUTE", cache_hit |-> <<>>, context_hints |-> <<>>,
                   storage |-> st]

\* mutant of Decide: the best hit is the most similar one, whatever its rank
DecideMostSimilar(st, icfg, hits, now) ==
    IF hits = <<>>
    THEN [decision |-> "EXECUTE", cache_hit |-> <<>>, context_hints |-> <<>>, storage |-> st]
    ELSE LET best_hit == hits[CHOOSE i \in 1..Len(hits) :
                                 \A j \in 1..Len(hits) : hits[j].similarity <= hits[i].similarity]
         IN  IF best_hit.similarity >= icfg.reuse_threshold
             THEN [decision |-> "REUSE", cache_hit |-> <<best_hit>>, context_hints |-> <<>>,
                   storage |-> IncrementReuseEntry(st, best_hit.id, now)]
             ELSE IF /\ best_hit.similarity >= icfg.similarity_threshold
                     /\ SuccessfulHits(hits) # <<>>
             THEN [decision |-> "PROVIDE_CONTEXT", cache_hit |-> <<>>,
                   context_hints |-> ContextHints(hits),
                   storage |-> IncrementContextAll(st, ContextHints(hits), now)]
             ELSE [decision |-> "EXECUTE", cache_hit |-> <<>>, context_hints |-> <<>>,
                   storage |-> st]

\* ToolInterceptor.decide on the ranked hits of search: the decision, the
\* cache_hit (a list of one hit, empty for None), the context_hints (empty for
\* None) and the storage after the counter increments.
Decide(st, icfg, hits, now) ==
    IF hits = <<>>
    THEN [decision |-> "EXECUTE", cache_hit |-> <<>>, context_hints |-> <<>>, storage |-> st]
    ELSE LET best_hit == hits[1]
         IN  IF best_hit.similarity >= icfg.reuse_threshold
             THEN [decision |-> "REUSE", cache_hit |-> <<best_hit>>, context_hints |-> <<>>,
                   storage |-> IncrementReuseEntry(st, best_hit.id, now)]
             ELSE IF /\ best_hit.similarity >= icfg.similarity_threshold
                     /\ SuccessfulHits(hits) # <<>>
             THEN [decision |-> "PROVIDE_CONTEXT", cache_hit |-> <<>>,
                   context_hints |-> ContextHints(hits),
                   storage |-> IncrementContextAll(st, ContextHints(hits), now)]
             ELSE [decision |-> "EXECUTE", cache_hit |-> <<>>, context_hints |-> <<>>,
                   storage |-> st]

\* ToolInterceptor.__init__: `self.config = config or CacheConfig()`; given is
\* the config argument as a list of one, empty for None.  The thresholds are
\* the part of the config decide reads.
InterceptorConfig(given) ==
    IF given = <<>>
    THEN [similarity_threshold |-> DefaultSimilarityThreshold,
          reuse_threshold |-> DefaultReuseThreshold]
    ELSE [similarity_threshold |-> given[1].similarity_threshold,
          reuse_threshold |-> given[1].reuse_threshold]

\* ------------------------------------------------------------------ state
VARIABLES
    storage,     \* MemoryStorageBackend: _data, _scores and their key order
    vindex,      \* the vector index: the ids it holds
    clock,       \* datetime.now(), in ticks
    config,      \* ToolCache.config
    iconfig,     \* ToolInterceptor.config
    stats,       \* ToolInterceptor._stats
    threads,     \* concurrent callers: each one's call, position and locals
    ret,         \* history: the last observed call and what it returned
    observe,     \* history: the calls whose return is recorded in ret
    refcap       \* the cap on reuse_count + provide_context_count of one entry

vars == <<storage, vindex, clock, config, iconfig, stats, threads, ret, observe, refcap>>

\* what no call changes: the two configurations and the run's parameters
fixed == <<config, iconfig, observe, refcap>>

AllIds == {EntryId(c[1], c[2]) : c \in Calls}

TotalRefs(entry) == entry.reuse_count + entry.provide_context_count

\* the ids of a list of hits
HitIds(hits) == [i \in 1..Len(hits) |-> hits[i].id]

\* the counter cap of the model: every entry a call would increment has room
HasRoom(st, ids) ==
    \A i \in 1..Len(ids) :
        StorageExists(st, ids[i]) => TotalRefs(StorageGet(st, ids[i])) < refcap

\* ret after a call: its record when the call is observed
Returned(op, r) == IF op \in observe THEN r ELSE [op |-> "quiet"]

CacheConfig(policy, size) ==
    [similarity_threshold |-> SimilarityThreshold, reuse_threshold |-> ReuseThreshold,
     max_cache_size |-> size, top_k |-> TopK, eviction_policy |-> policy]

\* the configuration of the cache and of the ToolInterceptor around it
InitConfig(policies, size, observed, cap) ==
    /\ clock = 0
    /\ config \in {CacheConfig(p, size) : p \in policies}
    /\ iconfig = [similarity_threshold |-> SimilarityThreshold,
                  reuse_threshold |-> ReuseThreshold]
    /\ stats = [hits |-> 0, misses |-> 0, context_provided |-> 0]
    /\ observe = observed
    /\ refcap = cap

\* a new ToolCache with in-memory storage, used by one caller at a time
InitCache(policies, size, observed, cap) ==
    /\ storage = EmptyStorage
    /\ vindex = {}
    /\ threads = <<>>
    /\ ret = [op |-> "init"]
    /\ InitConfig(policies, size, observed, cap)

\* time passes
Tick ==
    /\ clock < MaxClock
    /\ clock' = clock + 1
    /\ ret' = Returned("tick", [op |-> "tick"])
    /\ UNCHANGED <<storage, vindex, fixed, stats, threads>>

\* cache.save(tool_name, input_args, output, success)
Save(tool_name, args, outcome) ==
    LET Apply(r) ==
        /\ storage' = r.storage
        /\ vindex' = r.vindex
        /\ ret' = Returned("save", [op |-> "save", tool_name |-> tool_name, args |-> args,
                            id |-> r.id, output |-> outcome.output,
                            success |-> outcome.success,
                            existed |-> StorageExists(storage, r.id),
                            replaced |-> IF StorageExists(storage, r.id)
                                         THEN <<StorageGet(storage, r.id).output>>
                                         ELSE <<>>,
                            evicted |-> r.evicted])
        /\ UNCHANGED <<clock, fixed, stats, threads>>
    IN  Apply(SaveEntry(storage, vindex, config, tool_name, args,
                        outcome.output, outcome.success, clock))

\* cache.save(tool_name, input_args, output, success) when the storage write
\* fails; delete_fails: the rollback of the vector index fails too
SaveError(tool_name, args, outcome, delete_fails) ==
    LET Apply(r) ==
        /\ storage' = r.storage
        /\ vindex' = r.vindex
        /\ ret' = Returned("save_error", [op |-> "save_error", tool_name |-> tool_name,
                            args |-> args, id |-> r.id,
                            existed |-> StorageExists(storage, r.id),
                            raised |-> r.raised, delete_failed |-> delete_fails,
                            evicted |-> r.evicted])
        /\ UNCHANGED <<clock, fixed, stats, threads>>
    IN  Apply(SaveEntryStorageError(storage, vindex, config, tool_name, args,
                                    outcome.output, outcome.success, clock, delete_fails))

\* cache.increment_reuse(entry_id)
IncrementReuse(entry_id) ==
    /\ HasRoom(storage, <<entry_id>>)
    /\ storage' = IncrementReuseEntry(storage, entry_id, clock)
    /\ ret' = Returned("increment_reuse", [op |-> "increment_reuse", id |-> entry_id,
                        result |-> StorageExists(storage, entry_id)])
    /\ UNCHANGED <<vindex, clock, fixed, stats, threads>>

\* cache.increment_context(entry_id)
IncrementContext(entry_id) ==
    /\ HasRoom(storage, <<entry_id>>)
    /\ storage' = IncrementContextEntry(storage, entry_id, clock)
    /\ ret' = Returned("increment_context", [op |-> "increment_context", id |-> entry_id,
                        result |-> StorageExists(storage, entry_id)])
    /\ UNCHANGED <<vindex, clock, fixed, stats, threads>>

\* cache.storage.decrement_reference(entry_id), the caller's compensation
DecrementReference(entry_id) ==
    /\ storage' = StorageDecrementReference(storage, entry_id)
    /\ ret' = Returned("decrement_reference", [op |-> "decrement_reference", id |-> entry_id,
                        result |-> StorageExists(storage, entry_id)])
    /\ UNCHANGED <<vindex, clock, fixed, stats, threads>>

\* RedisStorageBackend.decrement_reference: the entry read with GET, one
\* counter lowered in the copy, the copy written with SET; the scores ZSET
\* is not written
RedisDecrementReference(st, key) ==
    IF ~StorageExists(st, key) THEN st
    ELSE LET data == StorageGet(st, key)
             value == IF data.reuse_count > 0
                      THEN [data EXCEPT !.reuse_count = data.reuse_count - 1]
                      ELSE IF data.provide_context_count > 0
                      THEN [data EXCEPT !.provide_context_count =
                                            data.provide_context_count - 1]
                      ELSE data
         IN  [st EXCEPT !.data[key] = value]

\* storage.decrement_reference(entry_id) of a cache on the Redis backend, by
\* a single caller
RedisDecrement(entry_id) ==
    /\ storage' = RedisDecrementReference(storage, entry_id)
    /\ ret' = Returned("decrement_reference",
                       [op |-> "decrement_reference", id |-> entry_id,
                        result |-> StorageExists(storage, entry_id)])
    /\ UNCHANGED <<vindex, clock, fixed, stats, threads>>

\* cache.search(tool_name, input_args)
SearchCall(tool_name, args) ==
    /\ vindex' = SearchPrune(storage, vindex, tool_name, args, config.top_k)
    /\ ret' = Returned("search", [op |-> "search", tool_name |-> tool_name, args |-> args,
                        hits |-> HitIds(Search(storage, vindex, config, tool_name, args,
                                               config.top_k, clock))])
    /\ UNCHANGED <<storage, clock, fixed, stats, threads>>

\* k = top_k or self.config.top_k: no top_k (None, modelled as 0) and 0 both
\* take the configured value
TopKOf(top_k, cfg) == IF top_k = 0 THEN cfg.top_k ELSE top_k

\* cache.search(tool_name, input_args, top_k)
SearchTopK(tool_name, args, top_k) ==
    /\ vindex' = SearchPrune(storage, vindex, tool_name, args, TopKOf(top_k, config))
    /\ ret' = Returned("search", [op |-> "search", tool_name |-> tool_name, args |-> args,
                        top_k |-> top_k,
                        hits |-> HitIds(Search(storage, vindex, config, tool_name, args,
                                               TopKOf(top_k, config), clock))])
    /\ UNCHANGED <<storage, clock, fixed, stats, threads>>

\* cache.stats()
Stats ==
    /\ ret' = Returned("stats", [op |-> "stats", result |-> CacheStats(storage)])
    /\ UNCHANGED <<storage, vindex, clock, fixed, stats, threads>>

\* cache.storage.exists(entry_id)
ExistsCall(entry_id) ==
    /\ ret' = Returned("exists", [op |-> "exists", id |-> entry_id,
                        result |-> StorageExists(storage, entry_id)])
    /\ UNCHANGED <<storage, vindex, clock, fixed, stats, threads>>

\* cache.get_best_match(tool_name, input_args)
GetBestMatch(tool_name, args) ==
    LET Apply(found) ==
        /\ storage' = IF found = <<>> THEN storage
                      ELSE TouchEntry(storage, found[1].id, clock)
        /\ vindex' = SearchPrune(storage, vindex, tool_name, args, 1)
        /\ ret' = Returned("get_best_match", [op |-> "get_best_match", tool_name |-> tool_name,
                            args |-> args, hit |-> HitIds(found)])
        /\ UNCHANGED <<clock, fixed, stats, threads>>
    IN  Apply(GetBestMatchHits(storage, vindex, config, tool_name, args, clock))

\* interceptor.decide(tool_name, input_args)
DecideCall(tool_name, args) ==
    LET Apply(hits, d) ==
        /\ HasRoom(storage, HitIds(d.cache_hit) \o HitIds(d.context_hints))
        /\ storage' = d.storage
        /\ vindex' = SearchPrune(storage, vindex, tool_name, args, config.top_k)
        /\ ret' = Returned("decide", [op |-> "decide", tool_name |-> tool_name, args |-> args,
                            hits |-> HitIds(hits), decision |-> d.decision,
                            cache_hit |-> HitIds(d.cache_hit),
                            context_hints |-> HitIds(d.context_hints)])
        /\ UNCHANGED <<clock, fixed, stats, threads>>
        WithHits(hits) == Apply(hits, Decide(storage, iconfig, hits, clock))
    IN  WithHits(Search(storage, vindex, config, tool_name, args, config.top_k, clock))

\* what the wrapped function returns for its arguments
ToolResult(tool_name, args) == <<"result", args>>

\* a call of the function wrapped by interceptor.wrap_tool; `fired` lists the
\* callbacks the call fired, in order
WrapCall(tool_name, args) ==
    LET Reused(d) ==
            /\ storage' = d.storage
            /\ vindex' = SearchPrune(storage, vindex, tool_name, args, config.top_k)
            /\ stats' = [stats EXCEPT !.hits = @ + 1]
            /\ ret' = Returned("wrap", [op |-> "wrap", tool_name |-> tool_name,
                                args |-> args, executed |-> FALSE,
                                result |-> d.cache_hit[1].entry.output,
                                decision |-> d.decision, fired |-> <<"on_cache_hit">>])
        Executed(d, r) ==
            /\ storage' = r.storage
            /\ vindex' = r.vindex
            /\ stats' = [stats EXCEPT !.misses = @ + 1]
            /\ ret' = Returned("wrap", [op |-> "wrap", tool_name |-> tool_name,
                                args |-> args, executed |-> TRUE,
                                result |-> ToolResult(tool_name, args),
                                decision |-> d.decision, fired |-> <<"on_cache_miss">>])
        Apply(d) ==
            /\ stats.hits + stats.misses < MaxCalls
            /\ HasRoom(storage, HitIds(d.cache_hit) \o HitIds(d.context_hints))
            /\ IF d.decision = "REUSE"
               THEN Reused(d)
               ELSE Executed(d, SaveEntry(d.storage,
                                 SearchPrune(storage, vindex, tool_name, args, config.top_k),
                                 config, tool_name, args, ToolResult(tool_name, args),
                                 TRUE, clock))
            /\ UNCHANGED <<clock, fixed, threads>>
        WithHits(hits) == Apply(Decide(storage, iconfig, hits, clock))
    IN  WithHits(Search(storage, vindex, config, tool_name, args, config.top_k, clock))

\* the counters of _stats after a call through create_wrapper's wrapper
WrapperStats(st, decision) ==
    IF decision = "REUSE" THEN [st EXCEPT !.hits = @ + 1]
    ELSE IF decision = "PROVIDE_CONTEXT"
         THEN [st EXCEPT !.context_provided = @ + 1, !.misses = @ + 1]
    ELSE [st EXCEPT !.misses = @ + 1]

\* mutant of WrapperFired: on_cache_miss is fired for no call
WrapperFiredHitOnly(decision) ==
    IF decision = "REUSE" THEN <<"on_cache_hit">> ELSE <<>>

\* the callbacks a call through a wrapper fires, in order
WrapperFired(decision) ==
    IF decision = "REUSE" THEN <<"on_cache_hit">> ELSE <<"on_cache_miss">>

\* a call through the wrapper of create_wrapper: request names the tool and
\* its args, execute(request) returns outcome (content, error status or not)
WrapperCall(tool_name, args, outcome) ==
    LET Reused(d) ==
            /\ storage' = d.storage
            /\ vindex' = SearchPrune(storage, vindex, tool_name, args, config.top_k)
            /\ ret' = Returned("wrapper", [op |-> "wrapper", tool_name |-> tool_name,
                                args |-> args, executed |-> FALSE,
                                result |-> d.cache_hit[1].entry.output,
                                decision |-> d.decision,
                                fired |-> WrapperFired(d.decision)])
        Executed(d, r) ==
            /\ storage' = r.storage
            /\ vindex' = r.vindex
            /\ ret' = Returned("wrapper", [op |-> "wrapper", tool_name |-> tool_name,
                                args |-> args, executed |-> TRUE,
                                result |-> outcome.output,
                                decision |-> d.decision,
                                fired |-> WrapperFired(d.decision)])
        Apply(d) ==
            /\ stats.hits + stats.misses < MaxCalls
            /\ HasRoom(storage, HitIds(d.cache_hit) \o HitIds(d.context_hints))
            /\ stats' = WrapperStats(stats, d.decision)
            /\ IF d.decision = "REUSE"
               THEN Reused(d)
               ELSE Executed(d, SaveEntry(d.storage,
                                 SearchPrune(storage, vindex, tool_name, args, config.top_k),
                                 config, tool_name, args, outcome.output,
                                 outcome.success, clock))
            /\ UNCHANGED <<clock, fixed, threads>>
        WithHits(hits) == Apply(Decide(storage, iconfig, hits, clock))
    IN  WithHits(Search(storage, vindex, config, tool_name, args, config.top_k, clock))

\* interceptor.reset_stats()
ResetStats ==
    /\ stats' = [hits |-> 0, misses |-> 0, context_provided |-> 0]
    /\ ret' = Returned("reset_stats", [op |-> "reset_stats"])
    /\ UNCHANGED <<storage, vindex, clock, fixed, threads>>

\* one query of run_benchmark's loop: decide; on PROVIDE_CONTEXT and on
\* EXECUTE the executor runs and its result is saved; when the saved entry
\* was one of the context hints, the caller compensates with
\* storage.decrement_reference
BenchmarkQuery(tool_name, args, outcome) ==
    LET Done(d, st, index, saved, compensated) ==
            /\ storage' = st
            /\ vindex' = index
            /\ ret' = Returned("benchmark",
                        [op |-> "benchmark", tool_name |-> tool_name, args |-> args,
                         decision |-> d.decision,
                         context_hints |-> HitIds(d.context_hints),
                         saved |-> saved, compensated |-> compensated])
        Saved(d, r) ==
            IF /\ d.decision = "PROVIDE_CONTEXT"
               /\ \E i \in 1..Len(d.context_hints) : d.context_hints[i].id = r.id
            THEN Done(d, StorageDecrementReference(r.storage, r.id), r.vindex, <<r.id>>, TRUE)
            ELSE Done(d, r.storage, r.vindex, <<r.id>>, FALSE)
        Apply(d, index) ==
            /\ HasRoom(storage, HitIds(d.cache_hit) \o HitIds(d.context_hints))
            /\ IF d.decision = "REUSE"
               THEN Done(d, d.storage, index, <<>>, FALSE)
               ELSE Saved(d, SaveEntry(d.storage, index, config, tool_name, args,
                                       outcome.output, outcome.success, clock))
            /\ UNCHANGED <<clock, fixed, stats, threads>>
        WithHits(hits) ==
            Apply(Decide(storage, iconfig, hits, clock),
                  SearchPrune(storage, vindex, tool_name, args, config.top_k))
    IN  WithHits(Search(storage, vindex, config, tool_name, args, config.top_k, clock))

\* mutant of ValidateCacheConfig: the two thresholds are not compared
ValidateCacheConfigFieldsOnly(similarity_threshold, reuse_threshold, max_cache_size) ==
    IF \/ similarity_threshold < 0 \/ similarity_threshold > 100
       \/ reuse_threshold < 0 \/ reuse_threshold > 100
       \/ max_cache_size <= 0
    THEN "field"
    ELSE "valid"

\* the validation of CacheConfig(...): the Field constraints (ge=0.0, le=1.0
\* on both thresholds, gt=0 on max_cache_size), then validate_thresholds;
\* the result names the check that raised
ValidateCacheConfig(similarity_threshold, reuse_threshold, max_cache_size) ==
    IF \/ similarity_threshold < 0 \/ similarity_threshold > 100
       \/ reuse_threshold < 0 \/ reuse_threshold > 100
       \/ max_cache_size <= 0
    THEN "field"
    ELSE IF similarity_threshold > reuse_threshold THEN "thresholds"
    ELSE "valid"

\* CacheConfig(similarity_threshold=..., reuse_threshold=..., max_cache_size=...)
\* with the arguments the caller chose; a valid one becomes the configuration
ConstructCacheConfig ==
    LET Apply(check) ==
        /\ ret.op = "arguments"
        /\ config' = IF check = "valid"
                     THEN [similarity_threshold |-> ret.similarity_threshold,
                           reuse_threshold |-> ret.reuse_threshold,
                           max_cache_size |-> ret.max_cache_size,
                           top_k |-> TopK, eviction_policy |-> "score"]
                     ELSE config
        /\ ret' = [op |-> "CacheConfig",
                   similarity_threshold |-> ret.similarity_threshold,
                   reuse_threshold |-> ret.reuse_threshold,
                   max_cache_size |-> ret.max_cache_size,
                   raised |-> IF check = "valid" THEN <<>> ELSE <<check>>]
        /\ UNCHANGED <<storage, vindex, clock, iconfig, observe, refcap, stats, threads>>
    IN  Apply(ValidateCacheConfig(ret.similarity_threshold, ret.reuse_threshold,
                                  ret.max_cache_size))

\* cache.clear()
Clear ==
    /\ storage' = StorageClear(storage)
    /\ vindex' = VectorClear(vindex)
    /\ ret' = Returned("clear", [op |-> "clear"])
    /\ UNCHANGED <<clock, fixed, stats, threads>>

\* ------------------------------------------------------- concurrent callers
\* A caller thread runs one call of the cache.  Every call of the storage
\* backend holds the backend's lock for its duration and is one step; between
\* two of them the other threads run.
\*   op     the call the thread makes
\*   pc     where the thread stands in it
\*   id     the entry id the call works on
\*   local  the entry the thread holds: a copy from storage.get, or the new
\*          CacheEntry (a list of one, empty for none)
\*   todo   the <<kind, id>> pairs whose counter the call still has to raise
\*   query  the <<tool_name, input_args>> of a search; its `local` is the list
\*          of hits so far and its `todo` the candidate ids still to fetch
Idle == [op |-> "none", pc |-> "idle", id |-> <<>>, local |-> <<>>, todo |-> <<>>,
         query |-> <<>>]

Threads == DOMAIN threads

Goto(t, pc, id, local, todo) ==
    threads' = [threads EXCEPT ![t] = [@ EXCEPT !.pc = pc, !.id = id,
                                                !.local = local, !.todo = todo]]

Call(t, op, pc, id, local, todo) ==
    threads' = [threads EXCEPT ![t] = [op |-> op, pc |-> pc, id |-> id,
                                       local |-> local, todo |-> todo, query |-> <<>>]]

\* save, up to existing = storage.get(entry_id); a new id builds its CacheEntry
ConcSaveGet(t, tool_name, args, outcome) ==
    /\ threads[t].pc = "idle"
    /\ LET entry_id == GenerateCacheId(tool_name, SerializeArgs(args))
       IN  IF StorageExists(storage, entry_id)
           THEN Call(t, "save", "save_set", entry_id,
                     <<[StorageGet(storage, entry_id) EXCEPT
                           !.output = outcome.output, !.success = outcome.success]>>, <<>>)
           ELSE Call(t, "save", "save_add", entry_id,
                     <<NewEntry(tool_name, args, outcome.output, outcome.success, clock)>>,
                     <<>>)
    /\ UNCHANGED <<storage, vindex, clock, fixed, stats, ret>>

\* save of an existing id: storage.set of the updated copy
ConcSaveSet(t) ==
    /\ threads[t].pc = "save_set"
    /\ LET entry == [threads[t].local[1] EXCEPT !.last_accessed_at = clock]
       IN  storage' = StorageSet(storage, threads[t].id, entry,
                                 ComputeEntryScore(entry, clock))
    /\ Goto(t, "done", threads[t].id, <<>>, <<>>)
    /\ UNCHANGED <<vindex, clock, fixed, stats, ret>>

\* save of a new id: vector_store.add
ConcSaveAdd(t) ==
    /\ threads[t].pc = "save_add"
    /\ vindex' = VectorAdd(vindex, threads[t].id)
    /\ Goto(t, "save_new", threads[t].id, threads[t].local, <<>>)
    /\ UNCHANGED <<storage, clock, fixed, stats, ret>>

\* save of a new id: storage.set of the new entry
ConcSaveNew(t) ==
    /\ threads[t].pc = "save_new"
    /\ storage' = StorageSet(storage, threads[t].id, threads[t].local[1],
                             ComputeEntryScore(threads[t].local[1], clock))
    /\ Goto(t, "save_evict", threads[t].id, <<>>, <<>>)
    /\ UNCHANGED <<vindex, clock, fixed, stats, ret>>

\* save of a new id: _maybe_evict
ConcSaveEvict(t) ==
    /\ threads[t].pc = "save_evict"
    /\ LET Apply(ev) == storage' = ev.storage /\ vindex' = ev.vindex
       IN  Apply(MaybeEvict(storage, vindex, config))
    /\ Goto(t, "done", threads[t].id, <<>>, <<>>)
    /\ UNCHANGED <<clock, fixed, stats, ret>>

\* RedisStorageBackend.increment_reuse / increment_context, up to
\* `data = self.get(key)`: one GET command; a missing key returns False
RedisIncrementGet(t, kind, key) ==
    /\ threads[t].pc = "idle"
    /\ IF StorageExists(storage, key)
       THEN Call(t, kind, "redis_set", key, <<StorageGet(storage, key)>>, <<>>)
       ELSE Call(t, kind, "done", key, <<>>, <<>>)
    /\ UNCHANGED <<storage, vindex, clock, fixed, stats, ret>>

\* RedisStorageBackend.increment_reuse / increment_context, the rest: the
\* counter of the copy is raised and one SET command writes the copy
RedisIncrementSet(t) ==
    /\ threads[t].pc = "redis_set"
    /\ LET data == threads[t].local[1]
           value == IF threads[t].op = "increment_reuse"
                    THEN [data EXCEPT !.reuse_count = @ + 1, !.last_accessed_at = clock]
                    ELSE [data EXCEPT !.provide_context_count = @ + 1,
                                      !.last_accessed_at = clock]
       IN  storage' = [storage EXCEPT !.data[threads[t].id] = value]
    /\ Goto(t, "done", threads[t].id, <<>>, <<>>)
    /\ UNCHANGED <<vindex, clock, fixed, stats, ret>>

\* _maybe_evict, call by call.  The thread keeps num_to_evict in `query` and
\* the evict_keys it still has to visit in `todo`.
EvictGoto(t, pc, num, todo) ==
    threads' = [threads EXCEPT ![t] = [@ EXCEPT !.pc = pc, !.query = num, !.todo = todo]]

\* `if self._storage.size() <= self.config.max_cache_size: return`
ConcEvictCheck(t) ==
    /\ threads[t].pc = "save_evict"
    /\ IF StorageSize(storage) <= config.max_cache_size
       THEN EvictGoto(t, "done", <<>>, <<>>)
       ELSE EvictGoto(t, "evict_count", <<>>, <<>>)
    /\ UNCHANGED <<storage, vindex, clock, fixed, stats, ret>>

\* num_to_evict = self._storage.size() - self.config.max_cache_size
ConcEvictCount(t) ==
    /\ threads[t].pc = "evict_count"
    /\ EvictGoto(t, "evict_select", <<StorageSize(storage) - config.max_cache_size>>, <<>>)
    /\ UNCHANGED <<storage, vindex, clock, fixed, stats, ret>>

\* evict_keys = the policy's selection of num_to_evict keys; the slice [:n]
\* of the sorted keys leaves out the last -n of them when n is negative
ConcEvictSelect(t) ==
    /\ threads[t].pc = "evict_select"
    /\ LET n == threads[t].query[1]
           keys == SelectForEviction(storage, config.eviction_policy,
                       IF n >= 0 THEN n
                       ELSE IF StorageSize(storage) + n > 0
                                 THEN StorageSize(storage) + n ELSE 0)
       IN  EvictGoto(t, IF keys = <<>> THEN "done" ELSE "evict_exists", <<>>, keys)
    /\ UNCHANGED <<storage, vindex, clock, fixed, stats, ret>>

\* _evict_entry: `if self._storage.exists(entry_id)`
ConcEvictExists(t) ==
    /\ threads[t].pc = "evict_exists"
    /\ IF StorageExists(storage, Head(threads[t].todo))
       THEN EvictGoto(t, "evict_delete", <<>>, threads[t].todo)
       ELSE EvictGoto(t, IF Tail(threads[t].todo) = <<>> THEN "done" ELSE "evict_exists",
                      <<>>, Tail(threads[t].todo))
    /\ UNCHANGED <<storage, vindex, clock, fixed, stats, ret>>

\* _evict_entry: self._storage.delete(entry_id)
ConcEvictDelete(t) ==
    /\ threads[t].pc = "evict_delete"
    /\ storage' = StorageDelete(storage, Head(threads[t].todo))
    /\ EvictGoto(t, "evict_vector", <<>>, threads[t].todo)
    /\ UNCHANGED <<vindex, clock, fixed, stats, ret>>

\* _evict_entry: self.vector_store.delete(ids=[entry_id])
ConcEvictVector(t) ==
    /\ threads[t].pc = "evict_vector"
    /\ vindex' = VectorDelete(vindex, Head(threads[t].todo))
    /\ EvictGoto(t, IF Tail(threads[t].todo) = <<>> THEN "done" ELSE "evict_exists",
                 <<>>, Tail(threads[t].todo))
    /\ UNCHANGED <<storage, clock, fixed, stats, ret>>

\* the storage call that opens increment_reuse, increment_context and
\* _touch_entry
StorageCount(st, kind, key, now) ==
    IF kind = "reuse" THEN StorageIncrementReuse(st, key, now)
    ELSE IF kind = "context" THEN StorageIncrementContext(st, key, now)
    ELSE StorageUpdateAccessTime(st, key, now)

\* the thread goes on to the next counter it has to raise, or returns
Continue(t, todo) ==
    IF todo = <<>> THEN Goto(t, "done", <<>>, <<>>, <<>>)
    ELSE Goto(t, "count", <<>>, <<>>, todo)

\* cache.increment_reuse(entry_id), up to storage.increment_reuse
ConcIncrementReuse(t, entry_id) ==
    /\ threads[t].pc = "idle"
    /\ storage' = StorageIncrementReuse(storage, entry_id, clock)
    /\ IF StorageExists(storage, entry_id)
       THEN Call(t, "increment_reuse", "get", entry_id, <<>>, <<<<"reuse", entry_id>>>>)
       ELSE Call(t, "increment_reuse", "done", <<>>, <<>>, <<>>)
    /\ UNCHANGED <<vindex, clock, fixed, stats, ret>>

\* cache.increment_context(entry_id), up to storage.increment_context
ConcIncrementContext(t, entry_id) ==
    /\ threads[t].pc = "idle"
    /\ storage' = StorageIncrementContext(storage, entry_id, clock)
    /\ IF StorageExists(storage, entry_id)
       THEN Call(t, "increment_context", "get", entry_id, <<>>, <<<<"context", entry_id>>>>)
       ELSE Call(t, "increment_context", "done", <<>>, <<>>, <<>>)
    /\ UNCHANGED <<vindex, clock, fixed, stats, ret>>

\* the first storage call of the next increment_reuse, increment_context or
\* _touch_entry that decide or get_best_match makes
ConcCount(t) ==
    /\ threads[t].pc = "count"
    /\ LET kind == Head(threads[t].todo)[1]
           entry_id == Head(threads[t].todo)[2]
       IN  /\ storage' = StorageCount(storage, kind, entry_id, clock)
           /\ IF StorageExists(storage, entry_id)
              THEN Goto(t, "get", entry_id, <<>>, threads[t].todo)
              ELSE Continue(t, Tail(threads[t].todo))
    /\ UNCHANGED <<vindex, clock, fixed, stats, ret>>

\* entry_data = storage.get(entry_id) after the counter was raised
ConcGet(t) ==
    /\ threads[t].pc = "get"
    /\ IF StorageExists(storage, threads[t].id)
       THEN Goto(t, "score", threads[t].id, <<StorageGet(storage, threads[t].id)>>,
                 threads[t].todo)
       ELSE Continue(t, Tail(threads[t].todo))
    /\ UNCHANGED <<storage, vindex, clock, fixed, stats, ret>>

\* storage.update_score with the score of the copy
ConcScore(t) ==
    /\ threads[t].pc = "score"
    /\ storage' = WriteScore(storage, threads[t].id, threads[t].local[1], clock)
    /\ Continue(t, Tail(threads[t].todo))
    /\ UNCHANGED <<vindex, clock, fixed, stats, ret>>

\* get_best_match, up to the return of search; _touch_entry follows
ConcGetBestMatch(t, tool_name, args) ==
    LET Apply(found) ==
        /\ threads[t].pc = "idle"
        /\ vindex' = SearchPrune(storage, vindex, tool_name, args, 1)
        /\ IF found = <<>>
           THEN Call(t, "get_best_match", "done", <<>>, <<>>, <<>>)
           ELSE Call(t, "get_best_match", "count", <<>>, <<>>, <<<<"touch", found[1].id>>>>)
        /\ UNCHANGED <<storage, clock, fixed, stats, ret>>
    IN  Apply(GetBestMatchHits(storage, vindex, config, tool_name, args, clock))

\* decide, up to the return of search and the choice of the decision; the
\* increments of the chosen entries follow
ConcDecide(t, tool_name, args) ==
    LET Todo(d) == [i \in 1..Len(d.cache_hit) |-> <<"reuse", d.cache_hit[i].id>>]
                     \o [i \in 1..Len(d.context_hints) |->
                            <<"context", d.context_hints[i].id>>]
        Apply(todo) ==
        /\ threads[t].pc = "idle"
        /\ vindex' = SearchPrune(storage, vindex, tool_name, args, config.top_k)
        /\ IF todo = <<>>
           THEN Call(t, "decide", "done", <<>>, <<>>, <<>>)
           ELSE Call(t, "decide", "count", <<>>, <<>>, todo)
        /\ UNCHANGED <<storage, clock, fixed, stats, ret>>
        WithHits(hits) == Apply(Todo(Decide(storage, iconfig, hits, clock)))
    IN  WithHits(Search(storage, vindex, config, tool_name, args, config.top_k, clock))

\* mutant of PruneCandidate: the stale id is never deleted from the index
PruneCandidateNever(index, id, fails) == index

\* search, `self.vector_store.delete(ids=[entry_id])` inside try/except-pass:
\* when the delete raises (fails), the index keeps the id and search goes on
PruneCandidate(index, id, fails) ==
    IF fails THEN index ELSE VectorDelete(index, id)

\* search, up to the return of vector_store.search: the candidate ids
ConcSearchQuery(t, tool_name, args) ==
    /\ threads[t].pc = "idle"
    /\ LET Start(cands) ==
           /\ threads' = [threads EXCEPT ![t] =
                  [op |-> "search", pc |-> IF cands = <<>> THEN "done" ELSE "fetch",
                   id |-> <<>>, local |-> <<>>, todo |-> cands,
                   query |-> <<tool_name, args>>]]
           /\ ret' = [ret EXCEPT !.op = "search", !.cands = cands]
       IN  Start(VectorSearch(vindex, tool_name, SerializeArgs(args)[2], config.top_k))
    /\ UNCHANGED <<storage, vindex, clock, fixed, stats>>

\* search goes on to its next candidate, or sorts the hits and returns
SearchContinue(t, hits, todo) ==
    IF todo = <<>> THEN Goto(t, "done", <<>>, SortHits(hits), <<>>)
    ELSE Goto(t, "fetch", <<>>, hits, todo)

\* search: entry_data = storage.get(entry_id) for the next candidate; a
\* stored one is filtered by similarity and scored
ConcSearchFetch(t) ==
    /\ threads[t].pc = "fetch"
    /\ LET entry_id == Head(threads[t].todo)
           args == threads[t].query[2]
       IN  IF StorageExists(storage, entry_id)
           THEN /\ SearchContinue(t,
                       IF SimilarityOf(Distance(entry_id[2], args))
                              >= config.similarity_threshold
                       THEN Append(threads[t].local, HitOf(storage, entry_id, args, clock))
                       ELSE threads[t].local,
                       Tail(threads[t].todo))
                /\ ret' = [ret EXCEPT !.fetched = @ \cup {entry_id}]
           ELSE /\ Goto(t, "exists", entry_id, threads[t].local, threads[t].todo)
                /\ ret' = [ret EXCEPT !.missing = @ \cup {entry_id}]
    /\ UNCHANGED <<storage, vindex, clock, fixed, stats>>

\* search: `if not self._storage.exists(entry_id)` for the candidate that
\* storage.get did not return; fails: exists raises, which is swallowed
ConcSearchExists(t, fails) ==
    /\ threads[t].pc = "exists"
    /\ IF ~fails /\ ~StorageExists(storage, threads[t].id)
       THEN Goto(t, "prune", threads[t].id, threads[t].local, threads[t].todo)
       ELSE SearchContinue(t, threads[t].local, Tail(threads[t].todo))
    /\ UNCHANGED <<storage, vindex, clock, fixed, stats, ret>>

\* search: vector_store.delete of the stale candidate; fails: the delete
\* raises, which is swallowed
ConcSearchPrune(t, fails) ==
    /\ threads[t].pc = "prune"
    /\ vindex' = PruneCandidate(vindex, threads[t].id, fails)
    /\ SearchContinue(t, threads[t].local, Tail(threads[t].todo))
    /\ ret' = [ret EXCEPT !.pruned = IF fails THEN @ ELSE @ \cup {threads[t].id}]
    /\ UNCHANGED <<storage, clock, fixed, stats>>

\* ------------------------------------------------------------------ Spec
\* Sequential callers of one cache, from the empty cache, under each eviction
\* policy; the return of save is observed.
Init == InitCache(Policies, MaxCacheSize, {"save"}, MaxRefs)

Next ==
    \/ Tick
    \/ \E c \in Calls, o \in Outcomes : Save(c[1], c[2], o)
    \/ \E id \in AllIds : IncrementReuse(id)
    \/ \E id \in AllIds : IncrementContext(id)
    \/ \E id \in AllIds : DecrementReference(id)
    \/ \E c \in Calls : SearchCall(c[1], c[2])
    \/ \E c \in Calls : GetBestMatch(c[1], c[2])
    \/ \E c \in Calls : DecideCall(c[1], c[2])
    \/ Stats
    \/ Clear

Spec == Init /\ [][Next]_vars

\* ------------------------------------------------------------- SpecRefs
\* increment_reuse and increment_context calls, for a stored id and for ids
\* that are not stored, on a cache that holds one entry referenced before and
\* that may be cleared; their returns are observed.

\* the id of the entry the cache holds at the start
TargetId == EntryId("search", 1)

RECURSIVE ReuseTimes(_, _, _)
\* n calls of increment_reuse(entry_id) at clock 0
ReuseTimes(st, entry_id, n) ==
    IF n = 0 THEN st ELSE ReuseTimes(IncrementReuseEntry(st, entry_id, 0), entry_id, n - 1)

\* the cache after save("search", 1, "result"), reuse calls of
\* increment_reuse and context calls of increment_context on that entry
InitOneEntry(reuse, context) ==
    LET Start(r) ==
            /\ storage = IncrementContextAll(ReuseTimes(r.storage, r.id, reuse),
                                             [i \in 1..context |-> [id |-> r.id]], 0)
            /\ vindex = r.vindex
    IN  Start(SaveEntry(EmptyStorage, {}, CacheConfig("score", NumArgs), "search", 1,
                        "result", TRUE, 0))

InitRefs ==
    /\ \E reuse \in 0..MaxRefs, context \in 0..MaxRefs : InitOneEntry(reuse, context)
    /\ threads = <<>>
    /\ ret = [op |-> "init"]
    /\ InitConfig({"score"}, NumArgs, {"increment_reuse", "increment_context"},
                  2 * MaxRefs + 2)

NextRefs ==
    \/ Tick
    \/ \E id \in AllIds : IncrementReuse(id)
    \/ \E id \in AllIds : IncrementContext(id)
    \/ Clear

SpecRefs == InitRefs /\ [][NextRefs]_vars

\* ----------------------------------------------------------- SpecDecide
\* One decide or search call, after any wait, on a cache that callers
\* populated before: any of the arguments 1..NumStored saved for the tool
\* "search", successfully or not, and each entry never reused or reused
\* MaxRefs times.
StoredArgs == 1..NumStored

\* the queries: every stored argument value, one never stored, and a call to a
\* tool that has no entry
Queries == {<<"search", a>> : a \in 1..NumStored + 1} \cup {<<"calculator", 1>>}

RECURSIVE Populate(_, _, _, _)
\* the cache after, for a = 1..n in turn, save("search", a, outcome[a]) and
\* reuse[a] calls of increment_reuse, for the arguments that are present
Populate(n, present, outcome, reuse) ==
    IF n = 0 THEN [storage |-> EmptyStorage, vindex |-> {}]
    ELSE LET Step(prev) ==
                 IF n \notin present THEN prev
                 ELSE LET Saved(r) ==
                              [storage |-> ReuseTimes(r.storage, r.id, reuse[n]),
                               vindex |-> r.vindex]
                      IN  Saved(SaveEntry(prev.storage, prev.vindex,
                                          CacheConfig("score", NumStored), "search", n,
                                          outcome[n].output, outcome[n].success, 0))
         IN  Step(Populate(n - 1, present, outcome, reuse))

InitDecide ==
    /\ \E present \in SUBSET StoredArgs :
          \E outcome \in [present -> Outcomes], reuse \in [present -> {0, MaxRefs}] :
             LET Start(cache) == storage = cache.storage /\ vindex = cache.vindex
             IN  Start(Populate(NumStored, present, outcome, reuse))
    /\ threads = <<>>
    /\ ret = [op |-> "init"]
    /\ InitConfig({"score"}, NumStored, {"decide", "search"}, MaxRefs + 1)

\* no observed call has been made yet
NoCallYet == ret.op \in {"init", "quiet"}

NextDecide ==
    \/ NoCallYet /\ Tick
    \/ \E q \in Queries : NoCallYet /\ SearchCall(q[1], q[2])
    \/ \E q \in Queries : NoCallYet /\ DecideCall(q[1], q[2])

SpecDecide == InitDecide /\ [][NextDecide]_vars

\* ----------------------------------------------------------- SpecLookup
\* One call that looks an entry up or counts a reference (search with or
\* without top_k, get_best_match, increment_reuse, increment_context, stats,
\* storage.exists), after any wait, on a cache that callers populated before:
\* any of the arguments 1..NumStored saved for the tool "search", each entry
\* never reused or reused MaxRefs times.
InitLookup ==
    /\ \E present \in SUBSET StoredArgs :
          \E reuse \in [present -> {0, MaxRefs}] :
             LET Start(cache) == storage = cache.storage /\ vindex = cache.vindex
             IN  Start(Populate(NumStored, present,
                                [a \in present |-> [output |-> "result", success |-> TRUE]],
                                reuse))
    /\ threads = <<>>
    /\ ret = [op |-> "init"]
    /\ InitConfig({"score"}, NumStored,
                  {"search", "get_best_match", "increment_reuse", "increment_context",
                   "stats", "exists"}, MaxRefs + 1)

\* the top_k a caller passes: none, and values below the number of entries
TopKs == 0..MaxTopK

StoredIds == {EntryId("search", a) : a \in 1..NumStored + 1}

NextLookup ==
    \/ NoCallYet /\ Tick
    \/ \E q \in Queries, k \in TopKs : NoCallYet /\ SearchTopK(q[1], q[2], k)
    \/ \E q \in Queries : NoCallYet /\ GetBestMatch(q[1], q[2])
    \/ \E id \in StoredIds : NoCallYet /\ IncrementReuse(id)
    \/ \E id \in StoredIds : NoCallYet /\ IncrementContext(id)
    \/ \E id \in StoredIds : NoCallYet /\ ExistsCall(id)
    \/ NoCallYet /\ Stats

SpecLookup == InitLookup /\ [][NextLookup]_vars

\* ------------------------------------------------------------- SpecWrap
\* A function wrapped by wrap_tool, called up to MaxCalls times on a new
\* cache under the default policy, as time passes.  MaxCalls bounds the
\* counters too: a call raises a counter of an entry by at most one.
InitWrap == InitCache({"score"}, MaxCacheSize, {"wrap"}, MaxCalls)

NextWrap ==
    \/ Tick
    \/ \E c \in Calls : WrapCall(c[1], c[2])

SpecWrap == InitWrap /\ [][NextWrap]_vars

\* ------------------------------------------------------------- SpecConc
\* NumThreads concurrent callers, each making one call of save,
\* increment_reuse, increment_context, get_best_match or decide, on a cache
\* that holds one entry and has room for every id.
InitConc ==
    /\ InitOneEntry(0, 0)
    /\ threads = [t \in 1..NumThreads |-> Idle]
    /\ ret = [op |-> "start", entry |-> StorageGet(storage, TargetId)]
    /\ InitConfig({"score"}, NumArgs, {}, MaxRefs)

NextConc ==
    \E t \in Threads :
        \/ \E c \in Calls, o \in Outcomes : ConcSaveGet(t, c[1], c[2], o)
        \/ ConcSaveSet(t)
        \/ ConcSaveAdd(t)
        \/ ConcSaveNew(t)
        \/ ConcSaveEvict(t)
        \/ \E id \in AllIds : ConcIncrementReuse(t, id)
        \/ \E id \in AllIds : ConcIncrementContext(t, id)
        \/ \E c \in Calls : ConcGetBestMatch(t, c[1], c[2])
        \/ \E c \in Calls : ConcDecide(t, c[1], c[2])
        \/ ConcCount(t)
        \/ ConcGet(t)
        \/ ConcScore(t)

SpecConc == InitConc /\ [][NextConc]_vars

\* -------------------------------------------------------------- SpecInc
\* NumThreads concurrent callers, each calling increment_reuse or
\* increment_context once on the same stored id; nothing else runs.
InitInc ==
    /\ \E reuse \in 0..MaxRefs, context \in 0..MaxRefs : InitOneEntry(reuse, context)
    /\ threads = [t \in 1..NumThreads |-> Idle]
    /\ ret = [op |-> "start", entry |-> StorageGet(storage, TargetId)]
    /\ InitConfig({"score"}, NumArgs, {}, MaxRefs)

NextInc ==
    \E t \in Threads :
        \/ ConcIncrementReuse(t, TargetId)
        \/ ConcIncrementContext(t, TargetId)
        \/ ConcGet(t)
        \/ ConcScore(t)

SpecInc == InitInc /\ [][NextInc]_vars

\* ------------------------------------------------------------ SpecFault
\* Sequential callers of one cache whose storage writes may fail: save,
\* save with a failing storage write (and possibly a failing rollback),
\* search, decide and clear, from the empty cache.
InitFault == InitCache({"score", "fifo"}, MaxCacheSize, {"save_error", "decide"}, MaxRefs)

NextFault ==
    \/ Tick
    \/ \E c \in Calls, o \in Outcomes : Save(c[1], c[2], o)
    \/ \E c \in Calls, o \in Outcomes, f \in BOOLEAN : SaveError(c[1], c[2], o, f)
    \/ \E c \in Calls : SearchCall(c[1], c[2])
    \/ \E c \in Calls : DecideCall(c[1], c[2])
    \/ Clear

SpecFault == InitFault /\ [][NextFault]_vars

\* ------------------------------------------------------------- SpecRace
\* One caller runs search while the other callers each run one save, on a
\* cache that holds up to MaxCacheSize entries and is full at MaxCacheSize: a
\* save of a new id evicts, and the search meets ids that are in the vector
\* index without a storage record (a save between its two writes, an
\* eviction after the index was queried).  ret records what the search saw.
InitRace ==
    /\ \E present \in SUBSET (1..MaxCacheSize) :
          LET Start(cache) == storage = cache.storage /\ vindex = cache.vindex
          IN  Start(Populate(MaxCacheSize, present,
                             [a \in present |-> [output |-> "result", success |-> TRUE]],
                             [a \in present |-> 0]))
    /\ threads = [t \in 1..NumThreads |-> Idle]
    /\ ret = [op |-> "start", cands |-> <<>>, fetched |-> {}, missing |-> {}, pruned |-> {}]
    /\ InitConfig({"score"}, MaxCacheSize, {}, MaxRefs)

NextRace ==
    \E t \in Threads :
        \/ \E c \in Calls : ret.op = "start" /\ ConcSearchQuery(t, c[1], c[2])
        \/ ConcSearchFetch(t)
        \/ \E f \in BOOLEAN : ConcSearchExists(t, f)
        \/ \E f \in BOOLEAN : ConcSearchPrune(t, f)
        \/ \E c \in Calls, o \in Outcomes : ConcSaveGet(t, c[1], c[2], o)
        \/ ConcSaveSet(t)
        \/ ConcSaveAdd(t)
        \/ ConcSaveNew(t)
        \/ ConcSaveEvict(t)

SpecRace == InitRace /\ [][NextRace]_vars

\* ------------------------------------------------------------ SpecTools
\* Two tools that are called with the same argument values: saves under
\* both, and searches for either, on a cache with room for NumArgs entries.
Tools == {"search", "calculator"}

ToolCalls == {<<tool, a>> : tool \in Tools, a \in Args}

InitTools == InitCache({"score"}, NumArgs, {"save", "search"}, MaxRefs)

NextTools ==
    \/ \E c \in ToolCalls : Save(c[1], c[2], [output |-> <<"result", c[1]>>, success |-> TRUE])
    \/ \E c \in ToolCalls : SearchCall(c[1], c[2])

SpecTools == InitTools /\ [][NextTools]_vars

\* -------------------------------------------------------- SpecEvictRace
\* NumThreads concurrent callers of a cache under the score policy that holds
\* up to MaxCacheSize entries of earlier calls: each caller makes one call
\* (save, increment_reuse, increment_context) as time passes, so a save of a
\* new id evicts while another caller counts a reference.
InitEvictRace ==
    /\ \E present \in SUBSET (1..MaxCacheSize) :
          \E reuse \in [present -> {0, MaxRefs}] :
             LET Start(cache) == storage = cache.storage /\ vindex = cache.vindex
             IN  Start(Populate(MaxCacheSize, present,
                                [a \in present |-> [output |-> "result", success |-> TRUE]],
                                reuse))
    /\ threads = [t \in 1..NumThreads |-> Idle]
    /\ ret = [op |-> "start"]
    /\ InitConfig({"score"}, MaxCacheSize, {}, MaxRefs + 1)

NextEvictRace ==
    \/ Tick
    \/ \E t \in Threads :
        \/ \E c \in Calls : ConcSaveGet(t, c[1], c[2], [output |-> "result", success |-> TRUE])
        \/ ConcSaveSet(t)
        \/ ConcSaveAdd(t)
        \/ ConcSaveNew(t)
        \/ ConcSaveEvict(t)
        \/ \E id \in AllIds : ConcIncrementReuse(t, id)
        \/ \E id \in AllIds : ConcIncrementContext(t, id)
        \/ ConcGet(t)
        \/ ConcScore(t)

SpecEvictRace == InitEvictRace /\ [][NextEvictRace]_vars

\* ------------------------------------------------------------ SpecBench
\* run_benchmark: the queries of a dataset, one after the other, on a new
\* cache under the default policy, as time passes.  MaxCalls bounds the
\* counters of an entry.
InitBench == InitCache({"score"}, MaxCacheSize, {"benchmark"}, MaxCalls)

NextBench ==
    \/ Tick
    \/ \E c \in Calls, o \in Outcomes : BenchmarkQuery(c[1], c[2], o)

SpecBench == InitBench /\ [][NextBench]_vars

\* ------------------------------------------------------------ SpecClear
\* One clear, after any wait, of a cache that holds entries: any non-empty
\* choice of the arguments 1..NumStored saved for the tool "search", each
\* entry never reused or reused MaxRefs times, and possibly an id in the
\* vector index that a failed save left there without a storage record.
InitClear ==
    /\ \E present \in (SUBSET StoredArgs) \ {{}} :
          \E reuse \in [present -> {0, MaxRefs}], orphans \in SUBSET {EntryId("search", NumStored + 1)} :
             LET Start(cache) == /\ storage = cache.storage
                                 /\ vindex = cache.vindex \cup orphans
             IN  Start(Populate(NumStored, present,
                                [a \in present |-> [output |-> "result", success |-> TRUE]],
                                reuse))
    /\ threads = <<>>
    /\ ret = [op |-> "init"]
    /\ InitConfig({"score"}, NumStored, {"clear"}, MaxRefs + 1)

NextClear ==
    \/ NoCallYet /\ Tick
    \/ NoCallYet /\ Clear

SpecClear == InitClear /\ [][NextClear]_vars

\* --------------------------------------------------------- SpecWrappers
\* The two wrapping layers of one interceptor on a new cache under the
\* default policy: up to MaxCalls calls between two resets, each through the
\* function wrapped by wrap_tool or through create_wrapper's wrapper, as time
\* passes.  Both callbacks are set.  The counters of an entry go up to
\* MaxRefs + 1.
InitWrappers ==
    InitCache({"score"}, MaxCacheSize, {"wrap", "wrapper", "reset_stats"}, MaxRefs + 1)

NextWrappers ==
    \/ Tick
    \/ \E c \in Calls : WrapCall(c[1], c[2])
    \/ \E c \in Calls, o \in Outcomes : WrapperCall(c[1], c[2], o)
    \/ ResetStats

SpecWrappers == InitWrappers /\ [][NextWrappers]_vars

\* ------------------------------------------------------------ SpecSaves
\* NumThreads concurrent callers of save, new ids and ids already stored, on
\* a cache that holds up to MaxCacheSize entries of earlier saves; every call
\* of the storage backend and of the vector store is a step of its own, the
\* calls of _maybe_evict included.  ret keeps the ids stored at the start.
InitSaves ==
    /\ \E present \in SUBSET (1..MaxCacheSize) :
          LET Start(cache) == storage = cache.storage /\ vindex = cache.vindex
          IN  Start(Populate(MaxCacheSize, present,
                             [a \in present |-> [output |-> "result", success |-> TRUE]],
                             [a \in present |-> 0]))
    /\ threads = [t \in 1..NumThreads |-> Idle]
    /\ ret = [op |-> "start", stored |-> DOMAIN storage.data]
    /\ InitConfig({"score"}, MaxCacheSize, {}, MaxRefs)

NextSaves ==
    \E t \in Threads :
        \/ \E c \in Calls : ConcSaveGet(t, c[1], c[2], [output |-> "result", success |-> TRUE])
        \/ ConcSaveSet(t)
        \/ ConcSaveAdd(t)
        \/ ConcSaveNew(t)
        \/ ConcEvictCheck(t)
        \/ ConcEvictCount(t)
        \/ ConcEvictSelect(t)
        \/ ConcEvictExists(t)
        \/ ConcEvictDelete(t)
        \/ ConcEvictVector(t)

SpecSaves == InitSaves /\ [][NextSaves]_vars

\* ------------------------------------------------------------ SpecRedis
\* NumThreads concurrent callers of the Redis backend, each calling
\* increment_reuse or increment_context once, on the stored id or on an id
\* that is not stored; every Redis command is a step.  ret
\* keeps the entry as it was at the start.
InitRedis ==
    /\ \E reuse \in 0..MaxRefs, context \in 0..MaxRefs : InitOneEntry(reuse, context)
    /\ threads = [t \in 1..NumThreads |-> Idle]
    /\ ret = [op |-> "start", entry |-> StorageGet(storage, TargetId)]
    /\ InitConfig({"score"}, NumArgs, {}, MaxRefs)

NextRedis ==
    \E t \in Threads :
        \/ \E kind \in {"increment_reuse", "increment_context"}, id \in AllIds :
              RedisIncrementGet(t, kind, id)
        \/ RedisIncrementSet(t)

SpecRedis == InitRedis /\ [][NextRedis]_vars

\* -------------------------------------------------------- SpecDecrement
\* decrement_reference calls of one caller, on either backend, for a stored
\* id and for ids that are not stored, as time passes, on a cache that holds
\* one entry referenced before; the returns are observed.
InitDecrement ==
    /\ \E reuse \in 0..MaxRefs + 1, context \in 0..MaxRefs + 1 :
          InitOneEntry(reuse, context)
    /\ threads = <<>>
    /\ ret = [op |-> "init"]
    /\ InitConfig({"score"}, NumArgs, {"decrement_reference"}, 2 * MaxRefs + 2)

NextDecrement ==
    \/ Tick
    \/ \E id \in AllIds : DecrementReference(id)
    \/ \E id \in AllIds : RedisDecrement(id)

SpecDecrement == InitDecrement /\ [][NextDecrement]_vars

\* ------------------------------------------------------ SpecInterceptor
\* One decide call of a ToolInterceptor built with a cache and without a
\* config, as ToolInterceptor(cache=cache), after any wait, on a cache that
\* callers populated before (as in SpecDecide) and that was configured with
\* similarity_threshold 0.5 and reuse_threshold 0.95.
InitInterceptor ==
    /\ \E present \in SUBSET StoredArgs :
          \E outcome \in [present -> Outcomes], reuse \in [present -> {0, MaxRefs}] :
             LET Start(cache) == storage = cache.storage /\ vindex = cache.vindex
             IN  Start(Populate(NumStored, present, outcome, reuse))
    /\ threads = <<>>
    /\ ret = [op |-> "init"]
    /\ clock = 0
    /\ config = CacheConfig("score", NumStored)
    /\ iconfig = InterceptorConfig(<<>>)
    /\ stats = [hits |-> 0, misses |-> 0, context_provided |-> 0]
    /\ observe = {"decide"}
    /\ refcap = MaxRefs + 1

SpecInterceptor == InitInterceptor /\ [][NextDecide]_vars

\* ----------------------------------------------------------- SpecConfig
\* One construction of a CacheConfig from arguments a caller may pass: each
\* threshold below 0, at 0, inside [0, 1], at 1 or above 1, and a
\* max_cache_size below, at or above 0.
ThresholdArgs == {0 - 5, 0, SimilarityThreshold, ReuseThreshold, 100, 105}

SizeArgs == (0 - 1)..MaxCacheSize

InitConfigArgs ==
    /\ storage = EmptyStorage
    /\ vindex = {}
    /\ threads = <<>>
    /\ ret \in [op : {"arguments"}, similarity_threshold : ThresholdArgs,
                reuse_threshold : ThresholdArgs, max_cache_size : SizeArgs]
    /\ InitConfig({"score"}, MaxCacheSize, {}, MaxRefs)

NextConfig == ConstructCacheConfig

SpecConfig == InitConfigArgs /\ [][NextConfig]_vars

\* ------------------------------------------------------- core/models.py
\* CacheEntry and its serialization.  A Python value is a record of its type
\* and its items; a datetime is a record of its second and microsecond; a
\* text produced by isoformat() is the sequence of the numbers it spells.

\* mutant of IsoFormat: the text stops at the seconds
IsoFormatSeconds(dt) == <<dt.second>>

\* datetime.isoformat(): the microseconds are written unless they are 0
IsoFormat(dt) ==
    IF dt.microsecond = 0 THEN <<dt.second>> ELSE <<dt.second, dt.microsecond>>

\* datetime.fromisoformat(text)
FromIsoFormat(text) ==
    [second |-> text[1], microsecond |-> IF Len(text) = 1 THEN 0 ELSE text[2]]

\* CacheEntry.to_dict
ToDict(entry) ==
    [id |-> entry.id, uuid |-> entry.uuid, tool_name |-> entry.tool_name,
     input_text |-> entry.input_text, input_args |-> entry.input_args,
     output |-> entry.output, embedding |-> entry.embedding,
     reuse_count |-> entry.reuse_count,
     provide_context_count |-> entry.provide_context_count,
     created_at |-> IsoFormat(entry.created_at),
     last_accessed_at |-> IsoFormat(entry.last_accessed_at),
     success |-> entry.success]

\* CacheEntry.from_dict, for a dict that has every key and both timestamps as
\* text
FromDict(data) ==
    [id |-> data.id, uuid |-> data.uuid, tool_name |-> data.tool_name,
     input_text |-> data.input_text, input_args |-> data.input_args,
     output |-> data.output, embedding |-> data.embedding,
     reuse_count |-> data.reuse_count,
     provide_context_count |-> data.provide_context_count,
     created_at |-> FromIsoFormat(data.created_at),
     last_accessed_at |-> FromIsoFormat(data.last_accessed_at),
     success |-> data.success]

\* json.dumps(data, default=str) of the dict of to_dict: strings, numbers,
\* booleans, None and lists of numbers are written as they are; in output and
\* in the value of input_args a str is a JSON string, a list and a tuple are
\* JSON arrays, and a value json cannot encode (here a set) is the JSON
\* string of its str()
JsonDumps(data) ==
    LET Encode(v) ==
            CASE v.type = "str" -> [json |-> "string", items |-> v.items]
              [] v.type \in {"list", "tuple"} -> [json |-> "array", items |-> v.items]
              [] OTHER -> [json |-> "string", items |-> <<"{", v.items, "}">>]
    IN  [data EXCEPT !.output = Encode(data.output),
                     !.input_args = [q |-> Encode(data.input_args.q)]]

\* json.loads(text): a JSON string is a str, a JSON array is a list
JsonLoads(text) ==
    LET Decode(j) ==
            IF j.json = "string" THEN [type |-> "str", items |-> j.items]
            ELSE [type |-> "list", items |-> j.items]
    IN  [text EXCEPT !.output = Decode(text.output),
                     !.input_args = [q |-> Decode(text.input_args.q)]]

\* CacheEntry.to_json
ToJson(entry) == JsonDumps(ToDict(entry))

\* CacheEntry.from_json
FromJson(json_str) == FromDict(JsonLoads(json_str))

\* CacheEntry.from_dict(entry.to_dict()) and CacheEntry.from_json(entry.to_json())
RoundTrip(via) ==
    /\ ret.op = "CacheEntry"
    /\ ret' = [op |-> via, entry |-> ret.entry,
               restored |-> IF via = "from_dict" THEN FromDict(ToDict(ret.entry))
                            ELSE FromJson(ToJson(ret.entry))]
    /\ UNCHANGED <<storage, vindex, clock, fixed, stats, threads>>

\* ----------------------------------------------------------- SpecModels
\* One round trip of a CacheEntry whose output and argument are a str, a
\* list, a tuple or a set, whose embedding is absent or present, whose
\* counters run over 0..MaxRefs and whose timestamps have microseconds or
\* none.
PyValues ==
    {[type |-> "str", items |-> <<"a">>]}
        \cup [type : {"list", "tuple", "set"}, items : {<<"a", "b">>}]

Datetimes == [second : 0..MaxClock, microsecond : {0, 7}]

InitModels ==
    /\ storage = EmptyStorage
    /\ vindex = {}
    /\ threads = <<>>
    /\ ret \in [op : {"CacheEntry"},
                entry : [id : {EntryId("search", 1)}, uuid : {"uuid4"},
                         tool_name : {"search"}, input_text : {"q"},
                         input_args : [q : PyValues], output : PyValues,
                         embedding : {<<>>, <<<<1, 25>>>>},
                         reuse_count : 0..MaxRefs,
                         provide_context_count : 0..MaxRefs,
                         created_at : Datetimes, last_accessed_at : Datetimes,
                         success : BOOLEAN]]
    /\ InitConfig({"score"}, MaxCacheSize, {}, MaxRefs)

NextModels == \E via \in {"from_dict", "from_json"} : RoundTrip(via)

SpecModels == InitModels /\ [][NextModels]_vars

\* --------------------------------------------------------------- claims
\* the ids, as a set, of a sequence
Range(seq) == {seq[i] : i \in 1..Len(seq)}

\* C1: after every save (a new entry or a re-save, in any sequential order of
\* save, increment, decide and get_best_match calls, under each eviction
\* policy) storage.size() <= max_cache_size.
C1_EvictionBound == StorageSize(storage) <= config.max_cache_size

\* a save of a new id into a full cache has returned, and it evicted
C1_Witness ==
    /\ ret.op = "save"
    /\ ~ret.existed
    /\ ret.evicted # <<>>
    /\ StorageSize(storage) = config.max_cache_size

\* C5: a save of a (tool_name, input_args) already stored leaves one entry for
\* that id: the size does not grow, output and success are those of this save,
\* and both counters keep the values storage held before it.
C5_ResaveKeepsCounters ==
    [][(ret'.op = "save" /\ StorageExists(storage, EntryId(ret'.tool_name, ret'.args)))
        => LET id == EntryId(ret'.tool_name, ret'.args)
               before == StorageGet(storage, id)
           IN  /\ StorageSize(storage') = StorageSize(storage)
               /\ DOMAIN storage'.data = DOMAIN storage.data
               /\ StorageGet(storage', id).output = ret'.output
               /\ StorageGet(storage', id).success = ret'.success
               /\ StorageGet(storage', id).reuse_count = before.reuse_count
               /\ StorageGet(storage', id).provide_context_count
                     = before.provide_context_count]_vars

\* a re-save with a different output of an entry that has been referenced
C5_Witness ==
    /\ ret.op = "save"
    /\ ret.existed
    /\ ret.replaced # <<ret.output>>
    /\ TotalRefs(StorageGet(storage, ret.id)) > 0

\* C6: immediately after save(tool, args, output) returns, search(tool, args)
\* holds a hit for the saved entry with the saved output.
C6_SavedEntryIsFound ==
    ret.op = "save" =>
        \E h \in Range(Search(storage, vindex, config, ret.tool_name, ret.args,
                              config.top_k, clock)) :
            h.id = ret.id /\ h.entry.output = ret.output

\* C8: for an existing id, increment_reuse returns true, raises reuse_count by
\* exactly 1 and leaves provide_context_count, output, success and created_at
\* alone; increment_context does the same with the two counters exchanged.
C8_IncrementRaisesOneCounter ==
    [][(ret'.op \in {"increment_reuse", "increment_context"}
            /\ StorageExists(storage, ret'.id))
        => LET before == StorageGet(storage, ret'.id)
               after == StorageGet(storage', ret'.id)
               reuse == IF ret'.op = "increment_reuse" THEN 1 ELSE 0
           IN  /\ ret'.result = TRUE
               /\ StorageExists(storage', ret'.id)
               /\ after.reuse_count = before.reuse_count + reuse
               /\ after.provide_context_count = before.provide_context_count + 1 - reuse
               /\ after.output = before.output
               /\ after.success = before.success
               /\ after.created_at = before.created_at]_vars

\* increment_context has returned true for an entry that both calls counted
\* before
C8_Witness ==
    /\ ret.op = "increment_context"
    /\ ret.result
    /\ StorageExists(storage, ret.id)
    /\ StorageGet(storage, ret.id).reuse_count = MaxRefs
    /\ StorageGet(storage, ret.id).provide_context_count = MaxRefs + 1

\* the similarity search computes between a stored id and the query
QuerySimilarity(id, args) == SimilarityOf(Distance(id[2], args))

\* C2: decide returns REUSE exactly when search returned a non-empty list whose
\* first hit, the one of highest weighted score, has similarity >=
\* reuse_threshold; then reuse_count of that entry grows by exactly 1, its
\* provide_context_count is unchanged and no other entry's counter changes.
C2_ReuseOnBestHit ==
    [][ret'.op = "decide"
        => LET hits == ret'.hits
               reuse == /\ hits # <<>>
                        /\ QuerySimilarity(hits[1], ret'.args) >= iconfig.reuse_threshold
               Score(id) == ComputeWeightedScore(QuerySimilarity(id, ret'.args),
                                StorageGet(storage, id).reuse_count,
                                StorageGet(storage, id).provide_context_count,
                                StorageGet(storage, id).last_accessed_at, clock)
           IN  /\ (ret'.decision = "REUSE") <=> reuse
               /\ \A i \in 1..Len(hits) : Score(hits[1]) >= Score(hits[i])
               /\ reuse =>
                     /\ ret'.cache_hit = <<hits[1]>>
                     /\ DOMAIN storage'.data = DOMAIN storage.data
                     /\ \A id \in DOMAIN storage.data :
                           /\ StorageGet(storage', id).reuse_count
                                 = StorageGet(storage, id).reuse_count
                                     + (IF id = hits[1] THEN 1 ELSE 0)
                           /\ StorageGet(storage', id).provide_context_count
                                 = StorageGet(storage, id).provide_context_count]_vars

\* decide has returned REUSE on a near-duplicate that outranks other hits
C2_Witness ==
    /\ ret.op = "decide"
    /\ ret.decision = "REUSE"
    /\ Len(ret.hits) > 1
    /\ ret.cache_hit[1][2] # ret.args
    /\ StorageGet(storage, ret.cache_hit[1]).reuse_count = MaxRefs + 1

\* C3: when the best hit's similarity is >= similarity_threshold and <
\* reuse_threshold and some hit has success = true, decide returns
\* PROVIDE_CONTEXT; its hints are the first (at most 3) successful hits in
\* ranked order, provide_context_count of each hinted entry grows by exactly
\* 1, no reuse_count changes, and no failed entry is ever a hint.
C3_ContextHints ==
    [][ret'.op = "decide"
        => LET hits == ret'.hits
               good == SelectSeq(hits, LAMBDA id : StorageGet(storage, id).success)
               expected == SubSeq(good, 1, Min(3, Len(good)))
               context == /\ hits # <<>>
                          /\ QuerySimilarity(hits[1], ret'.args) >= iconfig.similarity_threshold
                          /\ QuerySimilarity(hits[1], ret'.args) < iconfig.reuse_threshold
                          /\ good # <<>>
           IN  /\ context =>
                     /\ ret'.decision = "PROVIDE_CONTEXT"
                     /\ ret'.context_hints = expected
                     /\ DOMAIN storage'.data = DOMAIN storage.data
                     /\ \A id \in DOMAIN storage.data :
                           /\ StorageGet(storage', id).provide_context_count
                                 = StorageGet(storage, id).provide_context_count
                                     + (IF id \in Range(expected) THEN 1 ELSE 0)
                           /\ StorageGet(storage', id).reuse_count
                                 = StorageGet(storage, id).reuse_count
               /\ \A i \in 1..Len(ret'.context_hints) :
                     StorageGet(storage, ret'.context_hints[i]).success]_vars

\* decide has returned three hints and cut off a fourth successful hit
C3_Witness ==
    /\ ret.op = "decide"
    /\ ret.decision = "PROVIDE_CONTEXT"
    /\ Len(ret.context_hints) = 3
    /\ \E i \in 1..Len(ret.hits) :
          /\ ret.hits[i] \notin Range(ret.context_hints)
          /\ StorageGet(storage, ret.hits[i]).success

\* no stored entry of the tool is within similarity_threshold of the query
NoMatch(st, index, cfg, tool_name, args) ==
    \A id \in index :
        (id[1] = tool_name /\ StorageExists(st, id))
            => QuerySimilarity(id, args) < cfg.similarity_threshold

\* C4: when nothing matches (empty index, no entry of the tool, or every
\* candidate below similarity_threshold) search returns the empty list and
\* decide returns EXECUTE with neither cache_hit nor context_hints, and no
\* counter of any entry changes.
C4_NoMatchExecutes ==
    [][(ret'.op \in {"search", "decide"}
            /\ NoMatch(storage, vindex, config, ret'.tool_name, ret'.args))
        => /\ ret'.hits = <<>>
           /\ storage'.data = storage.data
           /\ ret'.op = "decide" =>
                 /\ ret'.decision = "EXECUTE"
                 /\ ret'.cache_hit = <<>>
                 /\ ret'.context_hints = <<>>]_vars

\* decide has returned EXECUTE for a tool whose stored entries are all too far
\* from the query
C4_Witness ==
    /\ ret.op = "decide"
    /\ ret.decision = "EXECUTE"
    /\ ret.hits = <<>>
    /\ \E id \in vindex : id[1] = ret.tool_name /\ StorageExists(storage, id)

\* C7: once a call of a wrap_tool-wrapped function with arguments a has
\* executed the function and saved its result, and that entry is still
\* stored, a later call with the same a returns the saved result without
\* executing the function, and counts as a hit.
C7_SavedCallIsReused ==
    [][(ret'.op = "wrap" /\ StorageExists(storage, EntryId(ret'.tool_name, ret'.args)))
        => /\ ~ret'.executed
           /\ ret'.result = StorageGet(storage, EntryId(ret'.tool_name, ret'.args)).output
           /\ stats'.hits = stats.hits + 1]_vars

\* C9: with concurrent callers of save, increment_reuse, increment_context,
\* get_best_match and decide, the counters of an entry that stays stored are
\* >= 0 and do not decrease from one state to the next.
C9_CountersNeverDecrease ==
    [][\A id \in DOMAIN storage.data \cap DOMAIN storage'.data :
          /\ StorageGet(storage', id).reuse_count >= StorageGet(storage, id).reuse_count
          /\ StorageGet(storage', id).provide_context_count
                >= StorageGet(storage, id).provide_context_count
          /\ StorageGet(storage', id).reuse_count >= 0
          /\ StorageGet(storage', id).provide_context_count >= 0]_vars

\* the threads that have made the call `op`
Callers(op) == {t \in Threads : threads[t].op = op}

\* C10: when NumThreads concurrent callers have each returned from one
\* increment_reuse or increment_context on the same stored id, each counter
\* is higher than at the start by exactly the number of its callers.
C10_NoLostIncrement ==
    (\A t \in Threads : threads[t].pc = "done")
        => /\ StorageGet(storage, TargetId).reuse_count
                 = ret.entry.reuse_count + Cardinality(Callers("increment_reuse"))
           /\ StorageGet(storage, TargetId).provide_context_count
                 = ret.entry.provide_context_count
                     + Cardinality(Callers("increment_context"))

\* every caller has returned from increment_reuse on the one id
C10_Witness ==
    /\ Threads # {}
    /\ \A t \in Threads : threads[t].pc = "done" /\ threads[t].op = "increment_reuse"
    /\ StorageGet(storage, TargetId).reuse_count = ret.entry.reuse_count + NumThreads

\* the ids the vector index holds without a record in storage
Orphans(st, index) == {id \in index : ~StorageExists(st, id)}

C12_FailedSaveRollsBack ==
    [][(ret'.op = "save_error" /\ ~ret'.existed)
        => /\ storage' = storage
           /\ ret'.raised = "storage"
           /\ ret'.evicted = <<>>
           /\ ~ret'.delete_failed => ret'.id \notin vindex'
           /\ vindex' \ {ret'.id} = vindex \ {ret'.id}]_vars

\* a save of a new id into a full cache failed in storage, and so did the
\* rollback: the id is still in the vector index
C12_Witness ==
    /\ ret.op = "save_error"
    /\ ~ret.existed
    /\ ret.delete_failed
    /\ ret.id \in vindex
    /\ StorageSize(storage) = config.max_cache_size

\* the search thread t took the step
Stepped(t) == threads'[t] # threads[t]

C14_ToolIsolation ==
    [][/\ ret'.op = "search"
          => /\ \A i \in 1..Len(ret'.hits) :
                   StorageGet(storage, ret'.hits[i]).tool_name = ret'.tool_name
             /\ \A other \in Tools \ {ret'.tool_name} :
                   EntryId(other, ret'.args) \notin Range(ret'.hits)
       /\ ret'.op = "save"
          => \A other \in Tools \ {ret'.tool_name} :
                LET id == EntryId(other, ret'.args)
                IN  /\ id # ret'.id
                    /\ (StorageExists(storage, id) /\ StorageExists(storage', id))
                          => StorageGet(storage', id) = StorageGet(storage, id)
                    /\ (StorageExists(storage, id) /\ ~StorageExists(storage', id))
                          => id \in Range(ret'.evicted)]_vars

\* search(A, args) has returned hits while entries of both tools with these
\* args are stored
C14_Witness ==
    /\ ret.op = "search"
    /\ ret.hits # <<>>
    /\ \A tool \in Tools : StorageExists(storage, EntryId(tool, ret.args))
    /\ StorageGet(storage, EntryId("search", ret.args)).output
          # StorageGet(storage, EntryId("calculator", ret.args)).output

\* C15: increment_reuse(id) and increment_context(id) on an id that is not in
\* storage return false and leave every stored entry, every stored score and
\* the vector index unchanged.
C15_MissingIdIsNoOp ==
    [][(ret'.op \in {"increment_reuse", "increment_context"}
            /\ ~StorageExists(storage, ret'.id))
        => /\ ret'.result = FALSE
           /\ storage'.data = storage.data
           /\ storage'.scores = storage.scores
           /\ storage' = storage
           /\ vindex' = vindex]_vars

\* increment_context has returned false for the id of an entry that was
\* stored and has been cleared
C15_Witness ==
    /\ ret.op = "increment_context"
    /\ ret.id = TargetId
    /\ ~ret.result
    /\ storage = EmptyStorage

\* the weighted score search computes for a stored id and a query
QueryScore(st, id, args, now) ==
    ComputeWeightedScore(QuerySimilarity(id, args), StorageGet(st, id).reuse_count,
                         StorageGet(st, id).provide_context_count,
                         StorageGet(st, id).last_accessed_at, now)

\* C16: every list search returns is ordered by non-increasing weighted_score,
\* holds only hits of similarity >= similarity_threshold, each once, and has
\* at most top_k elements (the configured top_k when none is passed); the
\* threshold is applied to the similarity, whatever the weighted score.
C16_SearchResultShape ==
    [][ret'.op = "search"
        => LET hits == ret'.hits
               k == IF ret'.top_k = 0 THEN config.top_k ELSE ret'.top_k
           IN  /\ \A i, j \in 1..Len(hits) :
                     i < j => /\ QueryScore(storage, hits[i], ret'.args, clock)
                                    >= QueryScore(storage, hits[j], ret'.args, clock)
                              /\ hits[i] # hits[j]
               /\ \A i \in 1..Len(hits) :
                     /\ StorageExists(storage, hits[i])
                     /\ QuerySimilarity(hits[i], ret'.args) >= config.similarity_threshold
               /\ Len(hits) <= k]_vars

\* a search with top_k = 2 has returned two hits although more stored entries
\* clear the threshold, and the hit of higher score is not the nearest one
C16_Witness ==
    /\ ret.op = "search"
    /\ ret.top_k = 2
    /\ Len(ret.hits) = ret.top_k
    /\ Cardinality({id \in DOMAIN storage.data :
           QuerySimilarity(id, ret.args) >= config.similarity_threshold}) > ret.top_k
    /\ QuerySimilarity(ret.hits[1], ret.args) < QuerySimilarity(ret.hits[2], ret.args)

C18_EveryTouchAdvances ==
    [][/\ ret'.op = "search"
          => \A i \in 1..Len(ret'.hits) :
                StorageGet(storage', ret'.hits[i]).last_accessed_at = clock
       /\ (ret'.op \in {"increment_reuse", "increment_context"} /\ ret'.result)
          => StorageGet(storage', ret'.id).last_accessed_at = clock
       /\ ret'.op \in {"exists", "stats"}
          => storage' = storage]_vars

\* C19: a stored entry leaves storage only in a save, as one of the entries
\* its eviction pass removed, or in a clear: no search, get_best_match, decide,
\* increment_reuse, increment_context, stats, decrement or passage of time
\* removes a storage record, however old its last_accessed_at is.
C19_RemovedOnlyByEvictionOrClear ==
    [][\A id \in DOMAIN storage.data \ DOMAIN storage'.data :
          \/ Clear
          \/ ret'.op = "save" /\ id \in Range(ret'.evicted)]_vars

\* a save has evicted an entry while an entry last accessed before the
\* current tick is still stored
C19_Witness ==
    /\ ret.op = "save"
    /\ ret.evicted # <<>>
    /\ clock = MaxClock
    /\ \E id \in DOMAIN storage.data : StorageGet(storage, id).last_accessed_at < clock
    /\ \A i \in 1..Len(ret.evicted) : ~StorageExists(storage, ret.evicted[i])

\* what a decide call leaves alone in storage: the set of entries and their
\* order; output, success, input_args, tool_name and created_at of every
\* entry; and all of an entry, and its score, unless it is one of the hits
\* and its counters were raised (by one, neither lowered)
DecideFrame ==
    /\ DOMAIN storage'.data = DOMAIN storage.data
    /\ storage'.order = storage.order
    /\ \A id \in DOMAIN storage.data :
          LET before == StorageGet(storage, id)
              after == StorageGet(storage', id)
          IN  /\ after.output = before.output
              /\ after.success = before.success
              /\ after.input_args = before.input_args
              /\ after.tool_name = before.tool_name
              /\ after.created_at = before.created_at
              /\ after.reuse_count \in {before.reuse_count, before.reuse_count + 1}
              /\ after.provide_context_count
                    \in {before.provide_context_count, before.provide_context_count + 1}
              /\ TotalRefs(after) # TotalRefs(before) => id \in Range(ret'.hits)
              /\ TotalRefs(after) = TotalRefs(before)
                    => /\ after = before
                       /\ StorageGetScore(storage', id) = StorageGetScore(storage, id)

\* C20 as claimed: a decide call modifies the cache only by incrementing
\* reference counters of entries among its hits; it changes no output,
\* success, input_args or created_at, adds and removes no storage entry, and
\* never changes the vector index (which holds the embeddings).
C20_DecideOnlyCounts ==
    [][ret'.op = "decide" => (DecideFrame /\ vindex' = vindex)]_vars

\* C20 as amended: as claimed, except that the search inside decide deletes
\* from the vector index the candidate ids that have no record in storage;
\* no id with a storage record leaves the index and none is added.
C20_DecideCountsAndPrunes ==
    [][ret'.op = "decide"
        => /\ DecideFrame
           /\ vindex' \subseteq vindex
           /\ vindex \ vindex' \subseteq Orphans(storage, vindex)]_vars

\* decide has given an entry of a full cache as a context hint and counted
\* it, and the vector index and storage agree afterwards
C20_Witness ==
    /\ ret.op = "decide"
    /\ ret.decision = "PROVIDE_CONTEXT"
    /\ ret.context_hints # <<>>
    /\ \A i \in 1..Len(ret.context_hints) :
          StorageGet(storage, ret.context_hints[i]).provide_context_count > 0
    /\ StorageSize(storage) = config.max_cache_size
    /\ vindex = DOMAIN storage.data

\* the entries an eviction pass of a concurrent save removes in this step
Evicting(t) == threads[t].pc = "save_evict" /\ threads'[t].pc = "done"

\* C21: under eviction policy score, the entries the eviction pass of a save
\* removes are the ones of lowest current weighted score: the score of every
\* removed entry, computed from its counters and its time since last access at
\* the moment of the eviction, is at most that of every entry that stays.
C21_EvictsLowestCurrentScore ==
    [][\A t \in Threads :
          (Evicting(t) /\ config.eviction_policy = "score")
          => \A r \in DOMAIN storage.data \ DOMAIN storage'.data,
                s \in DOMAIN storage'.data :
                ComputeEntryScore(StorageGet(storage, r), clock)
                    <= ComputeEntryScore(StorageGet(storage, s), clock)]_vars

\* the key an eviction policy other than score ranks an entry by
EvictionKey(policy, entry) ==
    IF policy = "lru" THEN entry.last_accessed_at
    ELSE IF policy = "lfu" THEN entry.reuse_count + entry.provide_context_count
    ELSE entry.created_at

\* C22: under lru (key last_accessed_at), lfu (key reuse_count +
\* provide_context_count) and fifo (key created_at), the key of every entry an
\* eviction pass removes is <= the key of every entry that survives it, and
\* every removed id is gone from storage and from the vector index.
C22_EvictsLowestKey ==
    [][(ret'.op = "save" /\ config.eviction_policy \in {"lru", "lfu", "fifo"})
        => \A r \in Range(ret'.evicted) :
              LET removed == IF StorageExists(storage, r) THEN StorageGet(storage, r)
                             ELSE NewEntry(ret'.tool_name, ret'.args, ret'.output,
                                           ret'.success, clock)
              IN  /\ ~StorageExists(storage', r)
                  /\ r \notin vindex'
                  /\ \A s \in DOMAIN storage'.data :
                        EvictionKey(config.eviction_policy, removed)
                            <= EvictionKey(config.eviction_policy, StorageGet(storage', s))]_vars

\* a save under lfu has evicted an entry other than the oldest one, which is
\* referenced and stays
C22_Witness ==
    /\ ret.op = "save"
    /\ config.eviction_policy = "lfu"
    /\ ret.evicted # <<>>
    /\ StorageSize(storage) = config.max_cache_size
    /\ TotalRefs(StorageGet(storage, StorageKeys(storage)[1])) > 0
    /\ StorageGet(storage, StorageKeys(storage)[1]).created_at < clock

\* C23: when a PROVIDE_CONTEXT decision counted entry e as a context hint and
\* the caller then compensates with decrement_reference(e), reuse_count and
\* provide_context_count of e are both back at their values before the
\* decision, whatever those values were.
C23_CompensationRestores ==
    [][(ret'.op = "benchmark" /\ ret'.compensated)
        => LET e == ret'.saved[1]
           IN  /\ StorageGet(storage', e).reuse_count = StorageGet(storage, e).reuse_count
               /\ StorageGet(storage', e).provide_context_count
                     = StorageGet(storage, e).provide_context_count]_vars

\* the fields of the dict that stats returns
StatsFields ==
    {"total_entries", "total_reuse_count", "total_context_count", "total_references",
     "avg_reference_count", "max_reference_count"}

\* C24: stats always returns the six fields; on an empty cache all are zero;
\* otherwise total_entries is the number of stored entries, total_references
\* = total_reuse_count + total_context_count is the sum of both counters over
\* the stored entries and max_reference_count the largest per-entry total.
C24_StatsFields ==
    ret.op = "stats" =>
        /\ DOMAIN ret.result = StatsFields
        /\ ret.result.total_entries = StorageSize(storage)
        /\ ret.result.total_references
              = ret.result.total_reuse_count + ret.result.total_context_count
        /\ ret.result.total_reuse_count = SumRefs(storage, StorageKeys(storage), "reuse")
        /\ ret.result.total_context_count = SumRefs(storage, StorageKeys(storage), "context")
        /\ \A id \in DOMAIN storage.data :
              TotalRefs(StorageGet(storage, id)) <= ret.result.max_reference_count
        /\ StorageSize(storage) > 0
              => \E id \in DOMAIN storage.data :
                    TotalRefs(StorageGet(storage, id)) = ret.result.max_reference_count
        /\ StorageSize(storage) = 0
              => \A f \in StatsFields : ret.result[f] = 0

\* C25: after clear returns, storage holds no entry and no score, the vector
\* index holds no record, stats().total_entries is 0 and search returns the
\* empty list for every tool and arguments, whatever was saved before.
C25_ClearEmptiesBoth ==
    ret.op = "clear" =>
        /\ storage.data = EmptyDict
        /\ storage.scores = EmptyDict
        /\ StorageKeys(storage) = <<>>
        /\ vindex = {}
        /\ CacheStats(storage).total_entries = 0
        /\ \A q \in Queries :
              Search(storage, vindex, config, q[1], q[2], config.top_k, clock) = <<>>

\* clear has returned, some time after the entries were saved
C25_Witness ==
    /\ ret.op = "clear"
    /\ clock = MaxClock
    /\ StorageSize(storage) = 0

\* C26 as claimed: in both wrapping layers a call decided REUSE fires
\* on_cache_hit once, a call decided EXECUTE fires on_cache_miss once, and a
\* call of any other decision fires neither callback.
C26_CallbacksByDecision ==
    ret.op \in {"wrap", "wrapper"} =>
        ret.fired = IF ret.decision = "REUSE" THEN <<"on_cache_hit">>
                    ELSE IF ret.decision = "EXECUTE" THEN <<"on_cache_miss">>
                    ELSE <<>>

\* C26 as amended: a call decided REUSE fires on_cache_hit once and nothing
\* else; a call decided EXECUTE or PROVIDE_CONTEXT, that is every call that
\* executes the tool, fires on_cache_miss once and nothing else.
C26_CallbacksByExecution ==
    ret.op \in {"wrap", "wrapper"} =>
        /\ ret.decision \in {"REUSE", "EXECUTE", "PROVIDE_CONTEXT"}
        /\ ret.decision = "REUSE" <=> ~ret.executed
        /\ ret.fired = IF ret.executed THEN <<"on_cache_miss">> ELSE <<"on_cache_hit">>

\* a call through create_wrapper's wrapper was decided PROVIDE_CONTEXT and has
\* fired on_cache_miss
C26_Witness ==
    /\ ret.op = "wrapper"
    /\ ret.decision = "PROVIDE_CONTEXT"
    /\ ret.fired = <<"on_cache_miss">>
    /\ stats.hits > 0

\* C27: since the last reset_stats, hits is the number of wrapped calls
\* decided REUSE, context_provided the number decided PROVIDE_CONTEXT and
\* hits + misses the number of wrapped calls, through create_wrapper's
\* wrapper and through wrap_tool alike: reset_stats zeroes the three counters
\* and every wrapped call raises them by its share.
C27_CountersFollowDecisions ==
    [][/\ ret'.op = "reset_stats"
          => stats' = [hits |-> 0, misses |-> 0, context_provided |-> 0]
       /\ ret'.op \in {"wrap", "wrapper"}
          => /\ stats'.hits = stats.hits + IF ret'.decision = "REUSE" THEN 1 ELSE 0
             /\ stats'.context_provided = stats.context_provided
                    + IF ret'.decision = "PROVIDE_CONTEXT" THEN 1 ELSE 0
             /\ stats'.hits + stats'.misses = stats.hits + stats.misses + 1]_vars

\* C28: constructing a CacheConfig with similarity_threshold >
\* reuse_threshold fails with an error, so every CacheConfig that construction
\* returns has similarity_threshold <= reuse_threshold, both thresholds in
\* [0, 1] and max_cache_size > 0.
C28_ConfigValidated ==
    ret.op = "CacheConfig" =>
        /\ ret.similarity_threshold > ret.reuse_threshold => ret.raised # <<>>
        /\ ret.raised = <<>>
              => /\ config.similarity_threshold = ret.similarity_threshold
                 /\ config.reuse_threshold = ret.reuse_threshold
                 /\ config.max_cache_size = ret.max_cache_size
                 /\ config.similarity_threshold <= config.reuse_threshold
                 /\ 0 <= config.similarity_threshold /\ config.similarity_threshold <= 100
                 /\ 0 <= config.reuse_threshold /\ config.reuse_threshold <= 100
                 /\ config.max_cache_size > 0

\* a construction with both thresholds inside [0, 1] and a positive size has
\* failed because similarity_threshold is above reuse_threshold
C28_Witness ==
    /\ ret.op = "CacheConfig"
    /\ ret.raised = <<"thresholds">>
    /\ ret.similarity_threshold = ReuseThreshold
    /\ ret.reuse_threshold = SimilarityThreshold
    /\ ret.max_cache_size = MaxCacheSize

\* C29: after increment_reuse(id) on an existing entry, directly or through a
\* REUSE decision, the score stored for the entry is strictly greater than the
\* score stored for it before the call.
C29_ReuseRaisesStoredScore ==
    [][\A id \in AllIds :
          (StorageExists(storage, id) /\ storage' = IncrementReuseEntry(storage, id, clock))
          => StorageGetScore(storage', id) > StorageGetScore(storage, id)]_vars

\* the fields of a CacheEntry other than input_args and output
PlainFields ==
    {"id", "uuid", "tool_name", "input_text", "embedding", "reuse_count",
     "provide_context_count", "created_at", "last_accessed_at", "success"}

\* a value made of JSON types only
IsJsonValue(v) == v.type \in {"str", "list"}

\* C30 as stated: a round trip through to_dict / from_dict or through
\* to_json / from_json yields an entry equal to the original in every field.
C30_RoundTripEqual ==
    ret.op \in {"from_dict", "from_json"} => ret.restored = ret.entry

\* C30: a round trip through to_dict / from_dict yields an entry equal to the
\* original in every field; a round trip through to_json / from_json yields
\* an entry equal to the original in every field other than input_args and
\* output, and equal in these two when they hold JSON types only; a tuple
\* comes back as the list of its items and a value json cannot encode as a str.
C30_RoundTripJsonValues ==
    /\ ret.op = "from_dict" => ret.restored = ret.entry
    /\ ret.op = "from_json" =>
          /\ \A f \in PlainFields : ret.restored[f] = ret.entry[f]
          /\ \A pair \in {<<ret.entry.output, ret.restored.output>>,
                          <<ret.entry.input_args.q, ret.restored.input_args.q>>} :
                CASE IsJsonValue(pair[1]) -> pair[2] = pair[1]
                  [] pair[1].type = "tuple" ->
                        pair[2] = [type |-> "list", items |-> pair[1].items]
                  [] OTHER -> pair[2].type = "str"

\* an entry with microsecond timestamps, counters above 0, an embedding, a
\* failed call and a list as output has come back from to_json / from_json
C30_Witness ==
    /\ ret.op = "from_json"
    /\ ret.entry.output.type = "list"
    /\ ret.entry.input_args.q.type = "str"
    /\ ret.entry.created_at.microsecond # 0
    /\ ret.entry.last_accessed_at = [second |-> MaxClock, microsecond |-> 0]
    /\ ret.entry.reuse_count = MaxRefs
    /\ ret.entry.embedding # <<>>
    /\ ~ret.entry.success
    /\ ret.restored = ret.entry

\* every caller has made its call and the call has returned
AllReturned == \A t \in Threads : threads[t].pc = "done"

\* C31: once all concurrent save calls (new ids and re-saves mixed) have
\* returned, storage.size() <= max_cache_size, in every interleaving.
C31_SizeBoundAfterSaves ==
    AllReturned => StorageSize(storage) <= config.max_cache_size

\* C33: whenever no operation is in progress, every entry present in storage
\* has its record in the vector index, in every interleaving of concurrent
\* saves and evictions.
C33_StoredIsIndexed ==
    (\A t \in Threads : threads[t].pc \in {"idle", "done"})
        => DOMAIN storage.data \subseteq vindex

\* C34: from a cache holding exactly max_cache_size entries, once concurrent
\* saves of new ids have all returned storage holds exactly max_cache_size
\* entries; saves into a cache that stays within max_cache_size remove
\* nothing.
C34_EvictsOnlyOverflow ==
    (AllReturned /\ \A t \in Threads : threads[t].id \notin ret.stored)
        => /\ Cardinality(ret.stored) = config.max_cache_size
                 => StorageSize(storage) = config.max_cache_size
           /\ Cardinality(ret.stored \cup {threads[t].id : t \in Threads})
                     <= config.max_cache_size
                 => DOMAIN storage.data
                       = ret.stored \cup {threads[t].id : t \in Threads}

\* the callers that made the call `op` on the stored id
Callers32(op) == {t \in Threads : threads[t].op = op /\ threads[t].id = TargetId}

\* C32: with the Redis backend, when N concurrent callers each invoke
\* increment_reuse (or increment_context) on the same existing id, the stored
\* counter ends exactly N higher than it started.
C32_NoLostIncrement ==
    AllReturned =>
        /\ StorageGet(storage, TargetId).reuse_count
              = ret.entry.reuse_count + Cardinality(Callers32("increment_reuse"))
        /\ StorageGet(storage, TargetId).provide_context_count
              = ret.entry.provide_context_count
                   + Cardinality(Callers32("increment_context"))

\* C35: after any set of concurrent increment_reuse and increment_context
\* calls on the same id have all returned, the score stored for the id is the
\* one computed from the entry's final stored counters.
C35_ScoreOfFinalCounters ==
    AllReturned =>
        StorageGetScore(storage, TargetId)
            = ComputeEntryScore(StorageGet(storage, TargetId), clock)

\* C36: decrement_reference(id) on an existing entry lowers reuse_count by 1
\* when it is > 0, otherwise provide_context_count by 1 when that is > 0,
\* otherwise changes nothing; it returns true in these cases and false for a
\* missing id, makes no counter negative, and leaves last_accessed_at, the
\* stored score and every other entry unchanged.
C36_DecrementReference ==
    [][\A id \in AllIds :
          (ret'.op = "decrement_reference" /\ ret'.id = id) =>
             IF ~StorageExists(storage, id)
             THEN ret'.result = FALSE /\ storage' = storage
             ELSE LET before == StorageGet(storage, id)
                      after == StorageGet(storage', id)
                  IN  /\ ret'.result = TRUE
                      /\ DOMAIN storage'.data = DOMAIN storage.data
                      /\ after = IF before.reuse_count > 0
                                 THEN [before EXCEPT !.reuse_count = @ - 1]
                                 ELSE IF before.provide_context_count > 0
                                 THEN [before EXCEPT !.provide_context_count = @ - 1]
                                 ELSE before
                      /\ after.reuse_count >= 0 /\ after.provide_context_count >= 0
                      /\ after.last_accessed_at = before.last_accessed_at
                      /\ storage'.scores = storage.scores
                      /\ \A k \in DOMAIN storage.data \ {id} :
                            StorageGet(storage', k) = StorageGet(storage, k)]_vars

\* decrement_reference has returned true for an entry whose counters are now
\* both 0, after time has passed: the entry keeps its access time and the
\* score stored when it was referenced
C36_Witness ==
    /\ ret.op = "decrement_reference"
    /\ ret.id = TargetId
    /\ ret.result = TRUE
    /\ StorageGet(storage, TargetId).reuse_count = 0
    /\ StorageGet(storage, TargetId).provide_context_count = 0
    /\ StorageGet(storage, TargetId).last_accessed_at < clock
    /\ StorageGetScore(storage, TargetId)
          > ComputeEntryScore(StorageGet(storage, TargetId), clock)

\* C37: a save for an id that already exists in storage changes only output,
\* success, last_accessed_at and the stored score of that entry: embedding,
\* created_at, uuid, input_text and the counters stay as stored, the vector
\* index is not written, no eviction runs, and no other entry changes.
C37_ResaveFrame ==
    [][(ret'.op = "save" /\ ret'.existed) =>
          LET id == ret'.id
          IN  /\ StorageGet(storage', id)
                    = [StorageGet(storage, id) EXCEPT
                          !.output = ret'.output, !.success = ret'.success,
                          !.last_accessed_at = clock]
              /\ vindex' = vindex
              /\ ret'.evicted = <<>>
              /\ DOMAIN storage'.data = DOMAIN storage.data
              /\ storage'.order = storage.order
              /\ \A k \in DOMAIN storage.data \ {id} :
                    /\ StorageGet(storage', k) = StorageGet(storage, k)
                    /\ StorageGetScore(storage', k) = StorageGetScore(storage, k)]_vars

\* a full cache in which an entry that was referenced and created earlier has
\* been saved again with another output
C37_Witness ==
    /\ ret.op = "save"
    /\ ret.existed
    /\ ret.replaced # <<ret.output>>
    /\ StorageSize(storage) = config.max_cache_size
    /\ StorageGet(storage, ret.id).reuse_count + StorageGet(storage, ret.id).provide_context_count > 0
    /\ StorageGet(storage, ret.id).created_at < StorageGet(storage, ret.id).last_accessed_at
    /\ StorageGet(storage, ret.id).output = ret.output

\* C38: when the interceptor and its cache use the same thresholds, every
\* hit decide examines has similarity >= similarity_threshold, so decide
\* returns EXECUTE on a non-empty hit list only when the best hit is below
\* reuse_threshold and no hit has success = true; then no counter is
\* incremented.
C38_ExecuteOnHitsOnlyWithoutSuccess ==
    [][(/\ ret'.op = "decide"
        /\ iconfig.similarity_threshold = config.similarity_threshold
        /\ iconfig.reuse_threshold = config.reuse_threshold) =>
          LET hits == Search(storage, vindex, config, ret'.tool_name, ret'.args,
                             config.top_k, clock)
          IN  /\ \A i \in 1..Len(hits) :
                    hits[i].similarity >= iconfig.similarity_threshold
              /\ (hits # <<>> /\ ret'.decision = "EXECUTE")
                    => /\ hits[1].similarity < iconfig.reuse_threshold
                       /\ \A i \in 1..Len(hits) : ~hits[i].entry.success
                       /\ storage' = storage]_vars

\* decide has returned EXECUTE although search found two or more entries
C38_Witness ==
    /\ ret.op = "decide"
    /\ ret.decision = "EXECUTE"
    /\ Len(ret.hits) >= 2
    /\ \A i \in 1..Len(ret.hits) : ~StorageGet(storage, ret.hits[i]).success

\* C39: a ToolInterceptor built with a cache but without a config classifies
\* calls with that cache's thresholds: for every hit list, decide's outcome
\* is the one the cache's configured similarity_threshold and reuse_threshold
\* give.
C39_DecidesByCacheThresholds ==
    [][ret'.op = "decide" =>
          ret'.decision
             = Decide(storage, InterceptorConfig(<<config>>),
                      Search(storage, vindex, config, ret'.tool_name, ret'.args,
                             config.top_k, clock),
                      clock).decision]_vars

\* C40: the REUSE branch of decide does not look at the success flag: when
\* the best hit has similarity >= reuse_threshold and its entry was saved with
\* success = false, decide returns REUSE with that entry and increments its
\* reuse_count, and the wrapping layer returns the stored failed output
\* without executing the tool.
C40_FailedEntryIsReused ==
    [][ret'.op = "wrapper" =>
          LET hits == Search(storage, vindex, config, ret'.tool_name, ret'.args,
                             config.top_k, clock)
          IN  (/\ hits # <<>>
               /\ hits[1].similarity >= iconfig.reuse_threshold
               /\ ~hits[1].entry.success)
                 => /\ ret'.decision = "REUSE"
                    /\ ~ret'.executed
                    /\ ret'.result = hits[1].entry.output
                    /\ StorageGet(storage', hits[1].id)
                          = [StorageGet(storage, hits[1].id) EXCEPT
                                !.reuse_count = @ + 1, !.last_accessed_at = clock]]_vars

\* the wrapper has returned the stored output of a failed call without
\* executing the tool, and the entry counts the reuse
C40_Witness ==
    /\ ret.op = "wrapper"
    /\ ret.decision = "REUSE"
    /\ ~ret.executed
    /\ ret.result = "error"
    /\ \E id \in DOMAIN storage.data :
          /\ id = EntryId(ret.tool_name, ret.args)
          /\ ~StorageGet(storage, id).success
          /\ StorageGet(storage, id).output = ret.result
          /\ StorageGet(storage, id).reuse_count > 0

====
